---- MODULE Spec2Model ----
(***************************************************************************)
(* Model of the kicad_coil_gen scripts: the five spiral generators         *)
(* (gen_circ_coil, gen_ellipse_coil, gen_rect_coil, gen_square_coil,       *)
(* gen_star_coil), their design-rule checks, the dual-layer assembly of    *)
(* the design record, their save prompts, generate_footprint_file of       *)
(* coil_to_footprint and its main, on one file and with --batch.           *)
(*                                                                         *)
(* Lengths are fixed-point integers, 1 = 0.001 mm.  Python's floats are    *)
(* modelled by exact arithmetic on these integers; every halved quantity   *)
(* (track_width / 2, initial_width / 2) is drawn even so that the halving  *)
(* is exact.  cos and sin are fixed-point approximations scaled by         *)
(* TrigScale, with the angle given as a fraction num/den of a full turn.   *)
(***************************************************************************)
EXTENDS Integers, Sequences, FiniteSets, TLC

VARIABLES
    pc,         \* where the running script stands
    shape,      \* which script runs: a generator or the converter
    params,     \* the arguments of the generator call
    errors,     \* the generator's list of design-rule violations
    json_data,  \* the design record the generator assembled
    json_file,  \* the saved JSON file (NoRecord until written)
    coil_data,  \* the record handed to generate_footprint_file
    fp_result,  \* how the last generate_footprint_file call ended
    fp_file,    \* the lines of the footprint file (Absent until written)
    save,       \* the answer to the generator's save prompt
    gen_fp,     \* the answer to the generator's footprint prompt
    batch       \* the run of the converter over a directory (--batch)

vars == <<pc, shape, params, errors, json_data, json_file, coil_data, fp_result, fp_file, save, gen_fp, batch>>

Absent == "absent"
NoParams == [none |-> TRUE]
NoRecord == [none |-> TRUE]
Unasked == "unasked"
NoBatch == [none |-> TRUE]

----------------------------------------------------------------------------
(* Bounds of the model *)

\* Largest number of turns of a generated coil.
MaxTurns == 2

\* Longest track of a hand-written design record, in points.
MaxPts == 3

\* Largest number of internal-layer track lists of a hand-written record.
MaxInternal == 7

\* Largest number of files in a project subfolder of a batch run.
MaxProjectFiles == 2

----------------------------------------------------------------------------
(* Arithmetic helpers *)

Min(a, b) == IF a < b THEN a ELSE b

Max(a, b) == IF a > b THEN a ELSE b

\* int(round(a / b)) for b > 0: Python rounds a tie to the even neighbour.
RoundDiv(a, b) ==
    LET q == a \div b
        r == a % b
    IN IF 2 * r < b THEN q
       ELSE IF 2 * r > b THEN q + 1
       ELSE IF q % 2 = 0 THEN q ELSE q + 1

TrigScale == 10 ^ 4

PiFx == 31416

\* cos on [0, pi/2], argument and result scaled by TrigScale (Taylor series).
CosQ(x) ==
    LET x2 == (x * x) \div TrigScale
        x4 == (x2 * x2) \div TrigScale
        x6 == (x4 * x2) \div TrigScale
        x8 == ((x6 \div 4) * x2) \div (TrigScale \div 4)
    IN TrigScale - (x2 \div 2) + (x4 \div 24) - (x6 \div 720) + (x8 \div 40320)

\* cos(2*pi*num/den), scaled by TrigScale.
Cos(num, den) ==
    LET a == (2 * PiFx * (num % den)) \div den
        h == PiFx \div 2
    IN IF a <= h THEN CosQ(a)
       ELSE IF a <= PiFx THEN 0 - CosQ(PiFx - a)
       ELSE IF a <= PiFx + h THEN 0 - CosQ(a - PiFx)
       ELSE CosQ(2 * PiFx - a)

\* sin(2*pi*num/den), scaled by TrigScale.
Sin(num, den) ==
    LET a == (2 * PiFx * (num % den)) \div den
        h == PiFx \div 2
    IN IF a <= h THEN CosQ(h - a)
       ELSE IF a <= PiFx THEN CosQ(a - h)
       ELSE IF a <= PiFx + h THEN 0 - CosQ(PiFx + h - a)
       ELSE 0 - CosQ(a - PiFx - h)

Pt(px, py) == [x |-> px, y |-> py]

\* Mutant of Last: index 0 taken where the code takes index -1.
Last_first(seq) == seq[1]

\* seq[-1]
Last(seq) == seq[Len(seq)]

\* points.insert(0, centre): the centre point prepended.
InsertFirst(points, centre) == <<centre>> \o points

\* Mutant of AppendLast: the centre point never joins the path.
AppendLast_dropped(points, centre) == points

\* points.append(centre): the centre point appended.
AppendLast(points, centre) == points \o <<centre>>

\* Mutant of MirrorReverse: the order is reversed but x is not negated.
MirrorReverse_unmirrored(points) ==
    [i \in 1..Len(points) |-> points[Len(points) + 1 - i]]

\* Mutant of MirrorReverse: mirrored in X, the point order kept.
MirrorReverse_unreversed(points) ==
    [i \in 1..Len(points) |-> Pt(0 - points[i].x, points[i].y)]

\* [{"x": -p["x"], "y": p["y"]} for p in reversed(points)]
MirrorReverse(points) ==
    [i \in 1..Len(points) |->
        Pt(0 - points[Len(points) + 1 - i].x, points[Len(points) + 1 - i].y)]

----------------------------------------------------------------------------
(* Manufacturer constraints of the design-rule checks *)

via_hole_diameter == 300
via_hole_to_track == 200
same_net_spacing == 150
min_track_width == 150
via_outer_diameter == 400
via_drill_diameter == 300
pin_drill_diameter == 800
pad_clearance == 100

Violation(c, m, r) == [check |-> c, measured |-> m, required |-> r]

\* Mutant of SpacingAndWidthErrors: the gap is compared with <= instead of <.
SpacingAndWidthErrors_inclusive(spacing, track_width) ==
    LET track_gap == spacing - track_width
    IN (IF track_gap <= same_net_spacing
        THEN <<Violation("same_net_spacing", track_gap, same_net_spacing)>>
        ELSE <<>>)
       \o
       (IF track_width < min_track_width
        THEN <<Violation("track_width", track_width, min_track_width)>>
        ELSE <<>>)

\* Mutant of SpacingAndWidthErrors: the checks are chained with elif, so the
\* track width is looked at only when the spacing passes.
SpacingAndWidthErrors_chained(spacing, track_width) ==
    LET track_gap == spacing - track_width
    IN IF track_gap < same_net_spacing
       THEN <<Violation("same_net_spacing", track_gap, same_net_spacing)>>
       ELSE IF track_width < min_track_width
       THEN <<Violation("track_width", track_width, min_track_width)>>
       ELSE <<>>

\* The same-net spacing and minimum track width checks, alike in every generator.
SpacingAndWidthErrors(spacing, track_width) ==
    LET track_gap == spacing - track_width
    IN (IF track_gap < same_net_spacing
        THEN <<Violation("same_net_spacing", track_gap, same_net_spacing)>>
        ELSE <<>>)
       \o
       (IF track_width < min_track_width
        THEN <<Violation("track_width", track_width, min_track_width)>>
        ELSE <<>>)

----------------------------------------------------------------------------
(* gen_circ_coil.py *)

\* np.linspace(0, max_theta, num=5000): the number of samples.
circ_num == 5000

\* Mutant of circ_points: the radius shrinks with the angle instead of growing.
circ_points_inward(p) ==
    [j \in 1..circ_num |->
        LET k == j - 1
            radius == p.initial_radius + p.spacing * p.turns
                      - (p.spacing * p.turns * k) \div (circ_num - 1)
        IN Pt(p.center_x + (radius * Cos(p.turns * k, circ_num - 1)) \div TrigScale,
              p.center_y + (radius * Sin(p.turns * k, circ_num - 1)) \div TrigScale)]

\* Mutant of circ_points: the last sample, at max_theta, is left out.
circ_points_open(p) ==
    [j \in 1..(circ_num - 1) |->
        LET k == j - 1
            radius == p.initial_radius + (p.spacing * p.turns * k) \div (circ_num - 1)
        IN Pt(p.center_x + (radius * Cos(p.turns * k, circ_num - 1)) \div TrigScale,
              p.center_y + (radius * Sin(p.turns * k, circ_num - 1)) \div TrigScale)]

\* The spiral of generate_coil_json: sample k (from 0) stands at the angle
\* theta = 2*pi*turns*k/(num-1), so spacing*theta/(2*pi) = spacing*turns*k/(num-1).
circ_points(p) ==
    [j \in 1..circ_num |->
        LET k == j - 1
            radius == p.initial_radius + (p.spacing * p.turns * k) \div (circ_num - 1)
        IN Pt(p.center_x + (radius * Cos(p.turns * k, circ_num - 1)) \div TrigScale,
              p.center_y + (radius * Sin(p.turns * k, circ_num - 1)) \div TrigScale)]

\* Mutant of circ_errors: the whole via hole diameter is required, not half.
circ_errors_diameter(p) ==
    LET min_inner_radius == via_hole_diameter + via_hole_to_track + p.track_width \div 2
    IN (IF p.initial_radius < min_inner_radius
        THEN <<Violation("via_clearance", p.initial_radius, min_inner_radius)>>
        ELSE <<>>)
       \o SpacingAndWidthErrors(p.spacing, p.track_width)

circ_errors(p) ==
    LET min_inner_radius == via_hole_diameter \div 2 + via_hole_to_track + p.track_width \div 2
    IN (IF p.initial_radius < min_inner_radius
        THEN <<Violation("via_clearance", p.initial_radius, min_inner_radius)>>
        ELSE <<>>)
       \o SpacingAndWidthErrors(p.spacing, p.track_width)

StdParameters(track_width) ==
    [trackWidth |-> track_width,
     pinDiameter |-> track_width,
     pinDrillDiameter |-> pin_drill_diameter,
     viaDiameter |-> via_outer_diameter,
     viaDrillDiameter |-> via_drill_diameter]

\* A pad entry as gen_circ_coil, gen_rect_coil and gen_square_coil write it.
NetPad(pos, track_width, layer) ==
    [x |-> pos.x, y |-> pos.y, width |-> track_width, height |-> track_width,
     layer |-> layer, angle |-> 0, net |-> "", clearance |-> pad_clearance]

\* A pad entry as gen_ellipse_coil and gen_star_coil write it.
PlainPad(pos, track_width, layer) ==
    [x |-> pos.x, y |-> pos.y, width |-> track_width, height |-> track_width,
     layer |-> layer, clearance |-> pad_clearance]

circ_json_data(p) ==
    LET points == InsertFirst(circ_points(p), Pt(p.center_x, p.center_y))
        back_points == MirrorReverse(points)
        pad_front == Last(points)
        pad_back == back_points[1]
    IN [parameters |-> StdParameters(p.track_width),
        tracks |-> [f |-> <<[width |-> p.track_width, pts |-> points]>>,
                    b |-> <<[width |-> p.track_width, pts |-> back_points]>>,
                    in |-> <<>>],
        vias |-> <<[x |-> p.center_x, y |-> p.center_y, net |-> ""]>>,
        pads |-> <<NetPad(pad_front, p.track_width, "f"),
                   NetPad(pad_back, p.track_width, "b")>>,
        silk |-> <<>>,
        edgeCuts |-> <<>>,
        components |-> <<>>]

----------------------------------------------------------------------------
(* gen_rect_coil.py *)

\* One leg of a lap: n times append the current point, then step by (dx, dy);
\* range(n) is empty for n <= 0.
Leg(x0, y0, dx, dy, n) ==
    IF n <= 0 THEN <<>>
    ELSE [i \in 1..n |-> Pt(x0 + (i - 1) * dx, y0 + (i - 1) * dy)]

\* Mutant of rect_lap: the lap ends with its down leg, without the inward point.
rect_lap_no_inward(st, spacing) ==
    LET w_steps == RoundDiv(st.current_width, spacing)
        h_steps == RoundDiv(st.current_height, spacing)
        x1 == st.current_x + Max(w_steps, 0) * spacing
        y1 == st.current_y + Max(h_steps, 0) * spacing
        x2 == x1 - Max(w_steps, 0) * spacing
        y2 == y1 - Max(h_steps - 1, 0) * spacing
    IN [points |-> st.points
                   \o Leg(st.current_x, st.current_y, spacing, 0, w_steps)
                   \o Leg(x1, st.current_y, 0, spacing, h_steps)
                   \o Leg(x1, y1, 0 - spacing, 0, w_steps)
                   \o Leg(x2, y1, 0, 0 - spacing, h_steps - 1),
        current_x |-> x2 + spacing,
        current_y |-> y2,
        current_width |-> st.current_width - 2 * spacing,
        current_height |-> st.current_height - 2 * spacing]

\* Mutant of rect_lap: the down leg is as long as the up leg.
rect_lap_full_down(st, spacing) ==
    LET w_steps == RoundDiv(st.current_width, spacing)
        h_steps == RoundDiv(st.current_height, spacing)
        x1 == st.current_x + Max(w_steps, 0) * spacing
        y1 == st.current_y + Max(h_steps, 0) * spacing
        x2 == x1 - Max(w_steps, 0) * spacing
        y2 == y1 - Max(h_steps, 0) * spacing
    IN [points |-> st.points
                   \o Leg(st.current_x, st.current_y, spacing, 0, w_steps)
                   \o Leg(x1, st.current_y, 0, spacing, h_steps)
                   \o Leg(x1, y1, 0 - spacing, 0, w_steps)
                   \o Leg(x2, y1, 0, 0 - spacing, h_steps)
                   \o <<Pt(x2, y2)>>,
        current_x |-> x2 + spacing,
        current_y |-> y2,
        current_width |-> st.current_width - 2 * spacing,
        current_height |-> st.current_height - 2 * spacing]

\* One pass of the loop body of generate_coil_json, from the loop state st.
rect_lap(st, spacing) ==
    LET w_steps == RoundDiv(st.current_width, spacing)
        h_steps == RoundDiv(st.current_height, spacing)
        x1 == st.current_x + Max(w_steps, 0) * spacing
        y1 == st.current_y + Max(h_steps, 0) * spacing
        x2 == x1 - Max(w_steps, 0) * spacing
        y2 == y1 - Max(h_steps - 1, 0) * spacing
    IN [points |-> st.points
                   \o Leg(st.current_x, st.current_y, spacing, 0, w_steps)
                   \o Leg(x1, st.current_y, 0, spacing, h_steps)
                   \o Leg(x1, y1, 0 - spacing, 0, w_steps)
                   \o Leg(x2, y1, 0, 0 - spacing, h_steps - 1)
                   \o <<Pt(x2, y2)>>,
        current_x |-> x2 + spacing,
        current_y |-> y2,
        current_width |-> st.current_width - 2 * spacing,
        current_height |-> st.current_height - 2 * spacing]

RECURSIVE rect_laps(_, _, _)
rect_laps(st, spacing, n) ==
    IF n = 0 THEN st ELSE rect_laps(rect_lap(st, spacing), spacing, n - 1)

\* The state of generate_coil_json after its spiral loop.
rect_spiral(p) ==
    rect_laps([points |-> <<>>, current_x |-> p.start_x, current_y |-> p.start_y,
               current_width |-> p.initial_width, current_height |-> p.initial_height],
              p.spacing, p.turns)

\* Mutant of rect_errors: the one-sided limit of the round coils is required.
rect_errors_one_sided(p) ==
    LET st == rect_spiral(p)
        min_inner_dim == Min(st.current_width, st.current_height)
        min_required == via_hole_diameter \div 2 + via_hole_to_track + p.track_width \div 2
    IN (IF min_inner_dim < min_required
        THEN <<Violation("via_clearance", min_inner_dim, min_required)>>
        ELSE <<>>)
       \o SpacingAndWidthErrors(p.spacing, p.track_width)

rect_errors(p) ==
    LET st == rect_spiral(p)
        min_inner_dim == Min(st.current_width, st.current_height)
        min_required == via_hole_diameter + 2 * (via_hole_to_track + p.track_width \div 2)
    IN (IF min_inner_dim < min_required
        THEN <<Violation("via_clearance", min_inner_dim, min_required)>>
        ELSE <<>>)
       \o SpacingAndWidthErrors(p.spacing, p.track_width)

rect_json_data(p) ==
    LET center_x == p.start_x + p.initial_width \div 2
        center_y == p.start_y + p.initial_height \div 2
        points == AppendLast(rect_spiral(p).points, Pt(center_x, center_y))
        back_points == MirrorReverse(points)
        pad_front == points[1]
        pad_back == Last(back_points)
    IN [parameters |-> StdParameters(p.track_width),
        tracks |-> [f |-> <<[width |-> p.track_width, pts |-> points]>>,
                    b |-> <<[width |-> p.track_width, pts |-> back_points]>>,
                    in |-> <<>>],
        vias |-> <<[x |-> center_x, y |-> center_y, net |-> ""]>>,
        pads |-> <<NetPad(pad_front, p.track_width, "f"),
                   NetPad(pad_back, p.track_width, "b")>>,
        silk |-> <<>>,
        edgeCuts |-> <<>>,
        components |-> <<>>]

----------------------------------------------------------------------------
(* gen_square_coil.py *)

\* One pass of the loop body of generate_coil_json, from the loop state st.
square_lap(st, spacing) ==
    LET steps == RoundDiv(st.current_side, spacing)
        x1 == st.current_x + Max(steps, 0) * spacing
        y1 == st.current_y + Max(steps, 0) * spacing
        x2 == x1 - Max(steps, 0) * spacing
        y2 == y1 - Max(steps - 1, 0) * spacing
    IN [points |-> st.points
                   \o Leg(st.current_x, st.current_y, spacing, 0, steps)
                   \o Leg(x1, st.current_y, 0, spacing, steps)
                   \o Leg(x1, y1, 0 - spacing, 0, steps)
                   \o Leg(x2, y1, 0, 0 - spacing, steps - 1)
                   \o <<Pt(x2, y2)>>,
        current_x |-> x2 + spacing,
        current_y |-> y2,
        current_side |-> st.current_side - 2 * spacing]

RECURSIVE square_laps(_, _, _)
square_laps(st, spacing, n) ==
    IF n = 0 THEN st ELSE square_laps(square_lap(st, spacing), spacing, n - 1)

\* The state of generate_coil_json after its spiral loop.
square_spiral(p) ==
    square_laps([points |-> <<>>, current_x |-> p.start_x, current_y |-> p.start_y,
                 current_side |-> p.initial_side],
                p.spacing, p.turns)

\* Mutant of square_errors: the one-sided limit of the round coils is required.
square_errors_one_sided(p) ==
    LET current_side == square_spiral(p).current_side
        min_inner_side == via_hole_diameter \div 2 + via_hole_to_track + p.track_width \div 2
    IN (IF current_side < min_inner_side
        THEN <<Violation("via_clearance", current_side, min_inner_side)>>
        ELSE <<>>)
       \o SpacingAndWidthErrors(p.spacing, p.track_width)

square_errors(p) ==
    LET current_side == square_spiral(p).current_side
        min_inner_side == via_hole_diameter + 2 * (via_hole_to_track + p.track_width \div 2)
    IN (IF current_side < min_inner_side
        THEN <<Violation("via_clearance", current_side, min_inner_side)>>
        ELSE <<>>)
       \o SpacingAndWidthErrors(p.spacing, p.track_width)

square_json_data(p) ==
    LET center_x == p.start_x + p.initial_side \div 2
        center_y == p.start_y + p.initial_side \div 2
        points == AppendLast(square_spiral(p).points, Pt(center_x, center_y))
        back_points == MirrorReverse(points)
        pad_front == points[1]
        pad_back == Last(back_points)
    IN [parameters |-> StdParameters(p.track_width),
        tracks |-> [f |-> <<[width |-> p.track_width, pts |-> points]>>,
                    b |-> <<[width |-> p.track_width, pts |-> back_points]>>,
                    in |-> <<>>],
        vias |-> <<[x |-> center_x, y |-> center_y, net |-> ""]>>,
        pads |-> <<NetPad(pad_front, p.track_width, "f"),
                   NetPad(pad_back, p.track_width, "b")>>,
        silk |-> <<>>,
        edgeCuts |-> <<>>,
        components |-> <<>>]

----------------------------------------------------------------------------
(* gen_ellipse_coil.py *)

\* np.linspace(0, theta_max, num=1000 * turns): samples per turn.
ellipse_num_per_turn == 1000

\* Sample k (from 0) stands at theta = 2*pi*turns*k/(num-1); both radii grow by
\* spacing*theta/(2*pi); y runs clockwise (center_y - r_y*sin).
ellipse_points(p) ==
    LET num == ellipse_num_per_turn * p.turns
    IN [j \in 1..num |->
           LET k == j - 1
               grow == (p.spacing * p.turns * k) \div (num - 1)
               r_x == p.initial_radius_x + grow
               r_y == p.initial_radius_y + grow
           IN Pt(p.center_x + (r_x * Cos(p.turns * k, num - 1)) \div TrigScale,
                 p.center_y - (r_y * Sin(p.turns * k, num - 1)) \div TrigScale)]

\* Mutant of ellipse_errors: only the x radius is measured.
ellipse_errors_x_only(p) ==
    LET min_inner_radius == p.initial_radius_x
        min_required == via_hole_diameter \div 2 + via_hole_to_track + p.track_width \div 2
    IN (IF min_inner_radius < min_required
        THEN <<Violation("via_clearance", min_inner_radius, min_required)>>
        ELSE <<>>)
       \o SpacingAndWidthErrors(p.spacing, p.track_width)

ellipse_errors(p) ==
    LET min_inner_radius == Min(p.initial_radius_x, p.initial_radius_y)
        min_required == via_hole_diameter \div 2 + via_hole_to_track + p.track_width \div 2
    IN (IF min_inner_radius < min_required
        THEN <<Violation("via_clearance", min_inner_radius, min_required)>>
        ELSE <<>>)
       \o SpacingAndWidthErrors(p.spacing, p.track_width)

ellipse_json_data(p) ==
    LET points == InsertFirst(ellipse_points(p), Pt(p.center_x, p.center_y))
        back_points == MirrorReverse(points)
    IN [parameters |-> StdParameters(p.track_width),
        tracks |-> [f |-> <<[width |-> p.track_width, pts |-> points]>>,
                    b |-> <<[width |-> p.track_width, pts |-> back_points]>>,
                    in |-> <<>>],
        vias |-> <<[x |-> p.center_x, y |-> p.center_y,
                    diameter |-> via_outer_diameter, drill |-> via_drill_diameter]>>,
        pads |-> <<PlainPad(Last(points), p.track_width, "f"),
                   PlainPad(back_points[1], p.track_width, "b")>>,
        silk |-> <<>>,
        edgeCuts |-> <<>>,
        components |-> <<>>]

----------------------------------------------------------------------------
(* gen_star_coil.py *)

\* math.radians(18) as a fraction of a full turn: 18/360 = 1/20.
star_offset_den == 20

\* Mutant of generate_star_spiral_points: the fractional turn counter starts
\* again at every lap, so the radii fall back at a lap boundary.
generate_star_spiral_points_resetting(center_x, center_y, initial_radius, turns, spacing, num_star_points, inner_ratio) ==
    LET points_per_star == num_star_points * 2
        total_points == turns * points_per_star
    IN [j \in 1..total_points |->
           LET i == j - 1
               outer_r == initial_radius
                          + (spacing * ((i % points_per_star) + points_per_star))
                               \div points_per_star
               inner_r == (outer_r * inner_ratio) \div 100
               r == IF i % 2 = 0 THEN outer_r ELSE inner_r
               num == i * (star_offset_den \div 2) + num_star_points
               den == star_offset_den * num_star_points
           IN Pt(center_x + (r * Cos(num, den)) \div TrigScale,
                 center_y + (r * Sin(num, den)) \div TrigScale)]

\* generate_star_spiral_points; inner_ratio is given in hundredths.
generate_star_spiral_points(center_x, center_y, initial_radius, turns, spacing, num_star_points, inner_ratio) ==
    LET points_per_star == num_star_points * 2
        total_points == turns * points_per_star
    IN [j \in 1..total_points |->
           LET i == j - 1
               \* frac_turn = i / points_per_star
               outer_r == initial_radius
                          + (spacing * (i + points_per_star)) \div points_per_star
               inner_r == (outer_r * inner_ratio) \div 100
               r == IF i % 2 = 0 THEN outer_r ELSE inner_r
               \* angle = i*pi/num_star_points + 18 degrees, in turns:
               \* i/(2*num_star_points) + 1/20
               num == i * (star_offset_den \div 2) + num_star_points
               den == star_offset_den * num_star_points
           IN Pt(center_x + (r * Cos(num, den)) \div TrigScale,
                 center_y + (r * Sin(num, den)) \div TrigScale)]

star_points(p) ==
    generate_star_spiral_points(p.center_x, p.center_y, p.initial_radius, p.turns,
                                p.spacing, p.points_per_turn \div 2, p.inner_ratio)

star_errors(p) ==
    LET min_inner_radius == via_hole_diameter \div 2 + via_hole_to_track + p.track_width \div 2
    IN (IF p.initial_radius < min_inner_radius
        THEN <<Violation("via_clearance", p.initial_radius, min_inner_radius)>>
        ELSE <<>>)
       \o SpacingAndWidthErrors(p.spacing, p.track_width)

star_json_data(p) ==
    LET points == InsertFirst(star_points(p), Pt(p.center_x, p.center_y))
        back_points == MirrorReverse(points)
    IN [parameters |-> StdParameters(p.track_width),
        tracks |-> [f |-> <<[width |-> p.track_width, pts |-> points]>>,
                    b |-> <<[width |-> p.track_width, pts |-> back_points]>>,
                    in |-> <<>>],
        vias |-> <<[x |-> p.center_x, y |-> p.center_y,
                    d |-> via_outer_diameter, drill |-> via_drill_diameter]>>,
        pads |-> <<PlainPad(Last(points), p.track_width, "f"),
                   PlainPad(back_points[1], p.track_width, "b")>>,
        silk |-> <<>>,
        edgeCuts |-> <<>>,
        components |-> <<>>]

----------------------------------------------------------------------------
(* coil_to_footprint.py: generate_footprint_file *)

internal_layers == <<"In1.Cu", "In2.Cu", "In3.Cu", "In4.Cu", "In5.Cu", "In6.Cu">>

\* Width of the Edge.Cuts lines (0.1 mm).
edge_cut_width == 100

\* The fourteen lines that open every footprint: header, reference, value.
HeaderLines(footprint_name) ==
    << [tag |-> "footprint", name |-> footprint_name],
       [tag |-> "version"],
       [tag |-> "generator"],
       [tag |-> "generator_version"],
       [tag |-> "layer"],
       [tag |-> "descr"],
       [tag |-> "tags"],
       [tag |-> "attr"],
       [tag |-> "fp_text_reference"],
       [tag |-> "effects", size |-> 1000],
       [tag |-> "close"],
       [tag |-> "fp_text_value", name |-> footprint_name],
       [tag |-> "effects", size |-> 1000],
       [tag |-> "close"] >>

FpLine(start, end, width, layer) ==
    [tag |-> "fp_line", start |-> start, end |-> end, width |-> width, layer |-> layer]

\* Mutant of Segments: the loop stops one segment early.
Segments_short(points, width, layer) ==
    IF Len(points) >= 2
    THEN [i \in 1..(Len(points) - 2) |-> FpLine(points[i], points[i + 1], width, layer)]
    ELSE <<>>

\* The loop over range(len(points) - 1) under "if len(points) >= 2".
Segments(points, width, layer) ==
    IF Len(points) >= 2
    THEN [i \in 1..(Len(points) - 1) |-> FpLine(points[i], points[i + 1], width, layer)]
    ELSE <<>>

\* "for track in <track list>": the segments of every track, in order.
RECURSIVE TrackLines(_, _)
TrackLines(track_list, layer) ==
    IF track_list = <<>> THEN <<>>
    ELSE LET track == Head(track_list)
         IN Segments(track.pts, track.width, layer)
            \o TrackLines(Tail(track_list), layer)

\* Mutant of InternalLines: a list past the sixth is written on the last layer.
RECURSIVE InternalLines_clamped(_, _)
InternalLines_clamped(lists, i) ==
    IF i >= Len(lists) THEN <<>>
    ELSE TrackLines(lists[i + 1], internal_layers[Min(i + 1, Len(internal_layers))])
         \o InternalLines_clamped(lists, i + 1)

\* "for i, track_list in enumerate(coil_data["tracks"]["in"])", from 0-based i.
RECURSIVE InternalLines(_, _)
InternalLines(lists, i) ==
    IF i >= Len(lists) THEN <<>>
    ELSE (IF i < Len(internal_layers)
          THEN TrackLines(lists[i + 1], internal_layers[i + 1])
          ELSE <<>>)
         \o InternalLines(lists, i + 1)

\* Mutant of ViaLines: a via that has its own diameter and drill is written with
\* them.
ViaLines_per_via(vias, via_diameter, via_drill) ==
    [i \in 1..Len(vias) |->
        [tag |-> "pad_np_thru_hole", x |-> vias[i].x, y |-> vias[i].y,
         size |-> IF "diameter" \in DOMAIN vias[i] THEN vias[i].diameter ELSE via_diameter,
         drill |-> IF "drill" \in DOMAIN vias[i] THEN vias[i].drill ELSE via_drill,
         layers |-> "*.Cu *.Mask"]]

ViaLines(vias, via_diameter, via_drill) ==
    [i \in 1..Len(vias) |->
        [tag |-> "pad_np_thru_hole", x |-> vias[i].x, y |-> vias[i].y,
         size |-> via_diameter, drill |-> via_drill, layers |-> "*.Cu *.Mask"]]

\* Mutant of PadLines: a pad without a layer field is taken for a back pad.
PadLines_default_back(pads) ==
    [i \in 1..Len(pads) |->
        LET pad == pads[i]
            layer == IF "layer" \in DOMAIN pad THEN pad.layer ELSE "b"
        IN [tag |-> "pad_smd", num |-> i, x |-> pad.x, y |-> pad.y,
            width |-> pad.width, height |-> pad.height,
            layers |-> IF layer = "b" THEN "B.Cu B.Paste B.Mask"
                                      ELSE "F.Cu F.Paste F.Mask"]]

\* "for i, pad in enumerate(coil_data["pads"])": one SMD pad line per pad.
PadLines(pads) ==
    [i \in 1..Len(pads) |->
        LET pad == pads[i]
            layer == IF "layer" \in DOMAIN pad THEN pad.layer ELSE "f"
        IN [tag |-> "pad_smd", num |-> i, x |-> pad.x, y |-> pad.y,
            width |-> pad.width, height |-> pad.height,
            layers |-> IF layer = "b" THEN "B.Cu B.Paste B.Mask"
                                      ELSE "F.Cu F.Paste F.Mask"]]

\* Mutant of SilkLines: the rotation attribute is written whenever the entry has
\* an angle field, an angle of 0 included.
RECURSIVE SilkLines_any_angle(_)
SilkLines_any_angle(silk) ==
    IF silk = <<>> THEN <<>>
    ELSE LET text == Head(silk)
         IN << [tag |-> "fp_text_user", text |-> text.text, x |-> text.x, y |-> text.y,
                layer |-> IF text.layer = "f" THEN "F.SilkS" ELSE "B.SilkS"],
               [tag |-> "effects", size |-> text.size] >>
            \o (IF "angle" \in DOMAIN text
                THEN << [tag |-> "t_justify", angle |-> text.angle] >>
                ELSE <<>>)
            \o << [tag |-> "close"] >>
            \o SilkLines_any_angle(Tail(silk))

RECURSIVE SilkLines(_)
SilkLines(silk) ==
    IF silk = <<>> THEN <<>>
    ELSE LET text == Head(silk)
         IN << [tag |-> "fp_text_user", text |-> text.text, x |-> text.x, y |-> text.y,
                layer |-> IF text.layer = "f" THEN "F.SilkS" ELSE "B.SilkS"],
               [tag |-> "effects", size |-> text.size] >>
            \o (IF "angle" \in DOMAIN text /\ text.angle # 0
                THEN << [tag |-> "t_justify", angle |-> text.angle] >>
                ELSE <<>>)
            \o << [tag |-> "close"] >>
            \o SilkLines(Tail(silk))

EdgeCutLines(edge_cut) ==
    IF Len(edge_cut) >= 2
    THEN Segments(edge_cut, edge_cut_width, "Edge.Cuts")
         \o (IF Len(edge_cut) > 2
             THEN << FpLine(edge_cut[Len(edge_cut)], edge_cut[1],
                            edge_cut_width, "Edge.Cuts") >>
             ELSE <<>>)
    ELSE <<>>

RECURSIVE EdgeCutsLines(_)
EdgeCutsLines(edge_cuts) ==
    IF edge_cuts = <<>> THEN <<>>
    ELSE EdgeCutLines(Head(edge_cuts)) \o EdgeCutsLines(Tail(edge_cuts))

\* The keys generate_footprint_file subscripts without a default: a record that
\* lacks one makes the call raise KeyError at that subscript.
HasRequiredKeys(data) ==
    /\ "parameters" \in DOMAIN data
    /\ {"trackWidth", "viaDiameter", "viaDrillDiameter"} \subseteq DOMAIN data.parameters
    /\ "tracks" \in DOMAIN data
    /\ {"f", "b", "in"} \subseteq DOMAIN data.tracks
    /\ {"vias", "pads", "silk", "edgeCuts"} \subseteq DOMAIN data

\* Mutant of generate_footprint_file: the SMD pads are written before the vias.
generate_footprint_file_pads_first(data, footprint_name) ==
    IF ~HasRequiredKeys(data)
    THEN [raised |-> TRUE, lines |-> <<>>]
    ELSE [raised |-> FALSE,
          lines |-> HeaderLines(footprint_name)
                    \o TrackLines(data.tracks.f, "F.Cu")
                    \o TrackLines(data.tracks.b, "B.Cu")
                    \o InternalLines(data.tracks.in, 0)
                    \o PadLines(data.pads)
                    \o ViaLines(data.vias, data.parameters.viaDiameter,
                                data.parameters.viaDrillDiameter)
                    \o SilkLines(data.silk)
                    \o EdgeCutsLines(data.edgeCuts)
                    \o << [tag |-> "end"] >>]

\* The call generate_footprint_file(coil_data, output_path), output_path given by
\* its stem footprint_name: whether it raised, and the lines it writes otherwise.
generate_footprint_file(data, footprint_name) ==
    IF ~HasRequiredKeys(data)
    THEN [raised |-> TRUE, lines |-> <<>>]
    ELSE [raised |-> FALSE,
          lines |-> HeaderLines(footprint_name)
                    \o TrackLines(data.tracks.f, "F.Cu")
                    \o TrackLines(data.tracks.b, "B.Cu")
                    \o InternalLines(data.tracks.in, 0)
                    \o ViaLines(data.vias, data.parameters.viaDiameter,
                                data.parameters.viaDrillDiameter)
                    \o PadLines(data.pads)
                    \o SilkLines(data.silk)
                    \o EdgeCutsLines(data.edgeCuts)
                    \o << [tag |-> "end"] >>]

----------------------------------------------------------------------------
(* The arguments the generators are called with *)

Centers == {Pt(0, 0), Pt(1000, -500)}

Turns == 1..MaxTurns

\* Around the via-clearance limit 0.15 + 0.2 + track_width/2.
Radii == {423, 425}

\* Around the same-net limit spacing - track_width = 0.15.
Spacings == {296, 300}

\* Around the minimum track width 0.15.
TrackWidths == {148, 150}

\* The circular coil of four turns: radius 0.5, spacing 0.3, track width 0.15.
CircScenario ==
    [center_x |-> 0, center_y |-> 0, initial_radius |-> 500, turns |-> 4,
     spacing |-> 300, track_width |-> 150]

CircParams ==
    {[center_x |-> c.x, center_y |-> c.y, initial_radius |-> r, turns |-> t,
      spacing |-> s, track_width |-> w] :
        c \in Centers, r \in Radii, t \in Turns, s \in Spacings, w \in TrackWidths}
    \cup {CircScenario}

EllipseParams ==
    {[center_x |-> c.x, center_y |-> c.y, initial_radius_x |-> rx,
      initial_radius_y |-> ry, turns |-> t, spacing |-> s, track_width |-> w] :
        c \in Centers, rx \in {424, 700}, ry \in {350, 425}, t \in Turns,
        s \in Spacings, w \in TrackWidths}

\* Sides around the limit 0.3 + 2*(0.2 + track_width/2) after one lap, and one so
\* short that the innermost dimension falls to zero or below.
Sides == {600, 1448, 1450, 3000}

\* The corner a coil centred on the origin starts from, and one off-centre corner.
Starts(width, height) == {Pt(0 - width \div 2, 0 - height \div 2), Pt(200, -100)}

RectParams ==
    UNION {{[start_x |-> st.x, start_y |-> st.y, initial_width |-> wd,
             initial_height |-> ht, turns |-> t, spacing |-> s, track_width |-> w] :
               st \in Starts(wd, ht), t \in Turns, s \in Spacings, w \in TrackWidths} :
           wd \in {1450, 3000}, ht \in {600, 1448, 1450}}

\* The square coil main() generates: side 3, four turns, spacing 0.3, centred on
\* the origin, track width 0.15.
SquareScenario ==
    [start_x |-> -1500, start_y |-> -1500, initial_side |-> 3000, turns |-> 4,
     spacing |-> 300, track_width |-> 150]

SquareParams ==
    UNION {{[start_x |-> st.x, start_y |-> st.y, initial_side |-> sd,
             turns |-> t, spacing |-> s, track_width |-> w] :
               st \in Starts(sd, sd), t \in Turns, s \in Spacings, w \in TrackWidths} :
           sd \in Sides}
    \cup {SquareScenario}

StarParams ==
    {[center_x |-> c.x, center_y |-> c.y, initial_radius |-> r, turns |-> t,
      spacing |-> s, track_width |-> w, points_per_turn |-> n, inner_ratio |-> q] :
        c \in Centers, r \in Radii, t \in Turns, s \in Spacings, w \in TrackWidths,
        n \in {1, 5, 10}, q \in {55, 100}}

\* What the user types at a prompt, after strip().lower().
Answers == {"y", "n", ""}

----------------------------------------------------------------------------
(* The design records the converter is run on *)

Corner(i) ==
    CASE i % 4 = 1 -> Pt(0, 0)
      [] i % 4 = 2 -> Pt(1000, 0)
      [] i % 4 = 3 -> Pt(1000, 1000)
      [] OTHER -> Pt(0, 1000)

\* n points walking the corners of a square: the fifth is the first again.
PathOf(n) == [i \in 1..n |-> Corner(i)]

TrackOf(n, width) == [width |-> width, pts |-> PathOf(n)]

\* A polygon of n points that returns (closed) to its first point or not.
EdgeCutOf(n, closed) ==
    IF closed /\ n >= 2 THEN PathOf(n - 1) \o <<Corner(1)>> ELSE PathOf(n)

EdgeCutChoices ==
    {<<>>}
    \cup {<<EdgeCutOf(n, c)>> : n \in 0..(MaxPts + 1), c \in BOOLEAN}
    \cup {<<EdgeCutOf(1, FALSE), EdgeCutOf(MaxPts + 1, TRUE), EdgeCutOf(MaxPts, FALSE)>>}

CustomParameters ==
    [trackWidth |-> 200, pinDiameter |-> 1000, pinDrillDiameter |-> 800,
     viaDiameter |-> 800, viaDrillDiameter |-> 400]

\* Vias, pads and silkscreen texts of a hand-written record, by richness v.
CustomVias(v) ==
    CASE v = 0 -> <<>>
      [] v = 1 -> <<[x |-> 500, y |-> 500]>>
      [] OTHER -> <<[x |-> 500, y |-> 500, diameter |-> 600, drill |-> 200],
                    [x |-> -500, y |-> 250]>>

CustomPads(v) ==
    CASE v = 0 -> <<>>
      [] v = 1 -> <<[x |-> -1000, y |-> 0, width |-> 500, height |-> 500],
                    [x |-> 2000, y |-> 0, width |-> 500, height |-> 500]>>
      [] OTHER -> <<[x |-> -1000, y |-> 0, width |-> 500, height |-> 400, layer |-> "b"],
                    [x |-> 2000, y |-> 0, width |-> 500, height |-> 500],
                    [x |-> 0, y |-> 2000, width |-> 300, height |-> 500, layer |-> "f"]>>

CustomSilk(v) ==
    CASE v = 0 -> <<>>
      [] v = 1 -> <<[text |-> "COIL", x |-> 500, y |-> -500, size |-> 500,
                     layer |-> "f", angle |-> 0]>>
      [] OTHER -> <<[text |-> "BACK", x |-> 500, y |-> -500, size |-> 500,
                     layer |-> "b", angle |-> 90],
                    [text |-> "COIL", x |-> 0, y |-> 0, size |-> 400, layer |-> "f"]>>

CustomRecord(n, m, k, v, cuts) ==
    [parameters |-> CustomParameters,
     tracks |-> [f |-> <<TrackOf(n, 200), TrackOf(m, 250)>>,
                 b |-> <<TrackOf(m, 200)>>,
                 in |-> [i \in 1..k |-> <<TrackOf(n, 100 + i)>>]],
     vias |-> CustomVias(v),
     pads |-> CustomPads(v),
     silk |-> CustomSilk(v),
     edgeCuts |-> cuts,
     components |-> <<>>]

WellFormedRecords ==
    {CustomRecord(n, m, k, v, cuts) :
        n \in 0..MaxPts, m \in 0..MaxPts, k \in {0, 1, MaxInternal},
        v \in 0..2, cuts \in EdgeCutChoices}

\* f restricted to the keys other than k.
Without(f, k) == [x \in DOMAIN f \ {k} |-> f[x]]

BaseRecord == CustomRecord(2, 3, 1, 1, <<EdgeCutOf(3, FALSE)>>)

\* Records that lack a key generate_footprint_file subscripts.
BrokenRecords ==
    {Without(BaseRecord, k) : k \in {"parameters", "tracks", "vias", "edgeCuts"}}
    \cup {[BaseRecord EXCEPT !.parameters = Without(@, k)] :
            k \in {"trackWidth", "viaDiameter", "viaDrillDiameter"}}
    \cup {[BaseRecord EXCEPT !.tracks = Without(@, k)] : k \in {"f", "b", "in"}}

InputRecords == WellFormedRecords \cup BrokenRecords

FootprintNames == {"custom_coil"}

\* What output_path holds before a run: nothing, or the footprint an earlier run
\* left there.
ExistingFootprints ==
    {Absent, generate_footprint_file(BaseRecord, "custom_coil").lines}

----------------------------------------------------------------------------
(* The scripts *)

Init ==
    /\ pc = "idle"
    /\ shape = "none"
    /\ params = NoParams
    /\ errors = <<>>
    /\ json_data = NoRecord
    /\ json_file = NoRecord
    /\ coil_data = NoRecord
    /\ fp_result = "none"
    /\ fp_file \in ExistingFootprints
    /\ save = Unasked
    /\ gen_fp = Unasked
    /\ batch = NoBatch

\* Each generator runs from its call to its first prompt: the spiral, the
\* design-rule checks and their report, then the assembly of json_data.

\* Mutant of circ_generate_coil_json: a coil with violations is not assembled.
circ_generate_coil_json_blocking ==
    /\ pc = "idle"
    /\ \E p \in CircParams :
          /\ params' = p
          /\ errors' = circ_errors(p)
          /\ json_data' = IF circ_errors(p) = <<>>
                           THEN circ_json_data(p)
                           ELSE [circ_json_data(p) EXCEPT !.tracks.f = <<>>,
                                                          !.tracks.b = <<>>,
                                                          !.vias = <<>>,
                                                          !.pads = <<>>]
    /\ shape' = "circ"
    /\ pc' = "ask_save"
    /\ UNCHANGED <<json_file, coil_data, fp_result, fp_file, save, gen_fp, batch>>

\* gen_circ_coil.generate_coil_json
circ_generate_coil_json ==
    /\ pc = "idle"
    /\ \E p \in CircParams :
          /\ params' = p
          /\ errors' = circ_errors(p)
          /\ json_data' = circ_json_data(p)
    /\ shape' = "circ"
    /\ pc' = "ask_save"
    /\ UNCHANGED <<json_file, coil_data, fp_result, fp_file, save, gen_fp, batch>>

\* gen_ellipse_coil.generate_coil_json
ellipse_generate_coil_json ==
    /\ pc = "idle"
    /\ \E p \in EllipseParams :
          /\ params' = p
          /\ errors' = ellipse_errors(p)
          /\ json_data' = ellipse_json_data(p)
    /\ shape' = "ellipse"
    /\ pc' = "ask_save"
    /\ UNCHANGED <<json_file, coil_data, fp_result, fp_file, save, gen_fp, batch>>

\* gen_rect_coil.generate_coil_json
rect_generate_coil_json ==
    /\ pc = "idle"
    /\ \E p \in RectParams :
          /\ params' = p
          /\ errors' = rect_errors(p)
          /\ json_data' = rect_json_data(p)
    /\ shape' = "rect"
    /\ pc' = "ask_save"
    /\ UNCHANGED <<json_file, coil_data, fp_result, fp_file, save, gen_fp, batch>>

\* gen_square_coil.generate_coil_json
square_generate_coil_json ==
    /\ pc = "idle"
    /\ \E p \in SquareParams :
          /\ params' = p
          /\ errors' = square_errors(p)
          /\ json_data' = square_json_data(p)
    /\ shape' = "square"
    /\ pc' = "ask_save"
    /\ UNCHANGED <<json_file, coil_data, fp_result, fp_file, save, gen_fp, batch>>

\* gen_star_coil.generate_star_coil_json
generate_star_coil_json ==
    /\ pc = "idle"
    /\ \E p \in StarParams :
          /\ params' = p
          /\ errors' = star_errors(p)
          /\ json_data' = star_json_data(p)
    /\ shape' = "star"
    /\ pc' = "ask_save"
    /\ UNCHANGED <<json_file, coil_data, fp_result, fp_file, save, gen_fp, batch>>

\* Mutant of answer_save: the footprint prompt follows whatever the answer.
answer_save_always_asks ==
    /\ pc = "ask_save"
    /\ \E answer \in Answers :
          /\ save' = answer
          /\ json_file' = IF answer = "y" THEN json_data ELSE json_file
          /\ pc' = "ask_fp"
    /\ UNCHANGED <<shape, params, errors, json_data, coil_data, fp_result, fp_file,
                   gen_fp, batch>>

\* The answer to "Save to coil_json/...? (y/n)": y writes the JSON file.
answer_save ==
    /\ pc = "ask_save"
    /\ \E answer \in Answers :
          /\ save' = answer
          /\ IF answer = "y"
             THEN json_file' = json_data /\ pc' = "ask_fp"
             ELSE json_file' = json_file /\ pc' = "exit"
    /\ UNCHANGED <<shape, params, errors, json_data, coil_data, fp_result, fp_file,
                   gen_fp, batch>>

\* Mutant of FootprintCall: the layer default is stored in the pad that lacks it
\* (setdefault for get), so the caller's record comes back changed.
FootprintCall_setdefault(data, footprint_name) ==
    LET r == generate_footprint_file(data, footprint_name)
    IN /\ coil_data' = IF r.raised THEN data
                        ELSE [data EXCEPT !.pads =
                                 [i \in 1..Len(data.pads) |->
                                     [k \in DOMAIN data.pads[i] \cup {"layer"} |->
                                         IF k \in DOMAIN data.pads[i]
                                         THEN data.pads[i][k] ELSE "f"]]]
       /\ fp_result' = IF r.raised THEN "KeyError" ELSE "ok"
       /\ fp_file' = IF r.raised THEN fp_file ELSE r.lines

\* Mutant of FootprintCall: the file is opened for appending, so the lines of an
\* earlier run stay in front of the new ones.
FootprintCall_appending(data, footprint_name) ==
    LET r == generate_footprint_file(data, footprint_name)
    IN /\ coil_data' = data
       /\ fp_result' = IF r.raised THEN "KeyError" ELSE "ok"
       /\ fp_file' = IF r.raised THEN fp_file
                      ELSE IF fp_file = Absent THEN r.lines
                      ELSE fp_file \o r.lines

\* Mutant of FootprintCall: the file is opened for writing before the record is
\* walked, so a call that raises leaves it empty.
FootprintCall_opened_first(data, footprint_name) ==
    LET r == generate_footprint_file(data, footprint_name)
    IN /\ coil_data' = data
       /\ fp_result' = IF r.raised THEN "KeyError" ELSE "ok"
       /\ fp_file' = r.lines

\* What a call of generate_footprint_file leaves behind: the file is written by
\* the last statement, so a call that raised wrote nothing.
FootprintCall(data, footprint_name) ==
    LET r == generate_footprint_file(data, footprint_name)
    IN /\ coil_data' = data
       /\ fp_result' = IF r.raised THEN "KeyError" ELSE "ok"
       /\ fp_file' = IF r.raised THEN fp_file ELSE r.lines

\* The answer to "Generate footprint (.kicad_mod) now? (y/n)".
answer_gen_fp ==
    /\ pc = "ask_fp"
    /\ \E answer \in Answers :
          /\ gen_fp' = answer
          /\ IF answer = "y"
             THEN \E name \in FootprintNames : FootprintCall(json_data, name)
             ELSE UNCHANGED <<coil_data, fp_result, fp_file>>
    /\ pc' = "exit"
    /\ UNCHANGED <<shape, params, errors, json_data, json_file, save, batch>>

\* coil_to_footprint.main on one input file holding the record data.
main_single ==
    /\ pc = "idle"
    /\ \E data \in InputRecords, name \in FootprintNames : FootprintCall(data, name)
    /\ shape' = "convert"
    /\ pc' = "exit"
    /\ UNCHANGED <<params, errors, json_data, json_file, save, gen_fp, batch>>

Next ==
    \/ generate_star_coil_json
    \/ rect_generate_coil_json
    \/ square_generate_coil_json
    \/ ellipse_generate_coil_json
    \/ circ_generate_coil_json
    \/ answer_save
    \/ answer_gen_fp
    \/ main_single

Spec == Init /\ [][Next]_vars

----------------------------------------------------------------------------
(* coil_to_footprint.main with --batch *)

\* What a file under the input directory holds: text json.load parses to a
\* record generate_footprint_file accepts, text it parses to a record that
\* lacks a key, or text it cannot parse.
FileContents ==
    {[parses |-> TRUE, data |-> BaseRecord],
     [parses |-> TRUE, data |-> Without(BaseRecord, "vias")],
     [parses |-> FALSE, data |-> NoRecord]}

\* A file of a directory: whether its name ends with .json, and what it holds.
Files ==
    {[is_json |-> TRUE, holds |-> c] : c \in FileContents}
    \cup {[is_json |-> FALSE, holds |-> [parses |-> FALSE, data |-> NoRecord]]}

\* The files of a project subfolder, in the order sorted() gives them.
ProjectListings == UNION {[1..n -> Files] : n \in 0..MaxProjectFiles}

\* The entries of the input directory: files and project subfolders.
FileEntries == {[kind |-> "file", file |-> f, files |-> <<>>] : f \in Files}

DirEntries ==
    {[kind |-> "dir", file |-> [is_json |-> FALSE, holds |-> [parses |-> FALSE, data |-> NoRecord]],
      files |-> l] : l \in ProjectListings}

\* sorted(os.listdir(args.input)): an empty directory, files only, subfolders
\* only, and a subfolder between two files.
Listings ==
    {<<>>}
    \cup {<<e>> : e \in FileEntries \cup DirEntries}
    \cup {<<f, d>> : f \in FileEntries, d \in DirEntries}
    \cup {<<f, d, g>> : f \in FileEntries, d \in DirEntries, g \in FileEntries}

\* The body of a try block: json.load of the file, then generate_footprint_file
\* of what it gave; TRUE when neither raised.
Converts(f) ==
    /\ f.holds.parses
    /\ ~generate_footprint_file(f.holds.data, "custom_coil").raised

\* json_files of a project subfolder: the files whose name ends with .json.
JsonFiles(entry) == SelectSeq(entry.files, LAMBDA f : f.is_json)

\* The state after the try/except around file f, known as id.
AfterTry(f, id) ==
    [batch EXCEPT !.attempted = @ \cup {id},
                  !.converted = IF Converts(f) THEN @ \cup {id} ELSE @,
                  !.total_converted = IF Converts(f) THEN @ + 1 ELSE @]

\* main --batch up to its loop: the input that is no directory ends the run
\* with status 1.
main_batch ==
    /\ pc = "idle"
    /\ \/ /\ batch' = [is_dir |-> FALSE, listing |-> <<>>, entry |-> 1, file |-> 0,
                      total_converted |-> 0, attempted |-> {}, converted |-> {},
                      exit_code |-> 1]
          /\ pc' = "exit"
       \/ /\ \E listing \in Listings :
                batch' = [is_dir |-> TRUE, listing |-> listing, entry |-> 1, file |-> 0,
                          total_converted |-> 0, attempted |-> {}, converted |-> {},
                          exit_code |-> 0]
          /\ pc' = "batch"
    /\ shape' = "convert"
    /\ UNCHANGED <<params, errors, json_data, json_file, coil_data, fp_result, fp_file,
                   save, gen_fp>>

\* Mutant of main_batch_entry: a top-level file that fails ends the run.
main_batch_entry_stopping ==
    /\ pc = "batch"
    /\ batch.file = 0
    /\ batch.entry <= Len(batch.listing)
    /\ LET entry == batch.listing[batch.entry]
       IN IF entry.kind = "file" /\ entry.file.is_json
          THEN IF Converts(entry.file)
               THEN /\ batch' = [AfterTry(entry.file, <<batch.entry, 0>>)
                                   EXCEPT !.entry = @ + 1]
                    /\ pc' = pc
               ELSE /\ batch' = [AfterTry(entry.file, <<batch.entry, 0>>)
                                   EXCEPT !.exit_code = 1]
                    /\ pc' = "exit"
          ELSE /\ batch' = IF entry.kind = "dir" /\ JsonFiles(entry) # <<>>
                           THEN [batch EXCEPT !.file = 1]
                           ELSE [batch EXCEPT !.entry = @ + 1]
               /\ pc' = pc
    /\ UNCHANGED <<shape, params, errors, json_data, json_file, coil_data, fp_result,
                   fp_file, save, gen_fp>>

\* One pass of "for entry in sorted(os.listdir(args.input))": a top-level .json
\* file is tried, a subfolder with .json files is entered, anything else is
\* passed over.
main_batch_entry ==
    /\ pc = "batch"
    /\ batch.file = 0
    /\ batch.entry <= Len(batch.listing)
    /\ LET entry == batch.listing[batch.entry]
       IN batch' = IF entry.kind = "file" /\ entry.file.is_json
                   THEN [AfterTry(entry.file, <<batch.entry, 0>>) EXCEPT !.entry = @ + 1]
                   ELSE IF entry.kind = "dir" /\ JsonFiles(entry) # <<>>
                   THEN [batch EXCEPT !.file = 1]
                   ELSE [batch EXCEPT !.entry = @ + 1]
    /\ UNCHANGED <<pc, shape, params, errors, json_data, json_file, coil_data, fp_result,
                   fp_file, save, gen_fp>>

\* One pass of "for json_file in sorted(json_files)" in a project subfolder.
main_batch_project_file ==
    /\ pc = "batch"
    /\ batch.file >= 1
    /\ LET json_files == JsonFiles(batch.listing[batch.entry])
           after == AfterTry(json_files[batch.file], <<batch.entry, batch.file>>)
       IN batch' = IF batch.file < Len(json_files)
                   THEN [after EXCEPT !.file = @ + 1]
                   ELSE [after EXCEPT !.file = 0, !.entry = @ + 1]
    /\ UNCHANGED <<pc, shape, params, errors, json_data, json_file, coil_data, fp_result,
                   fp_file, save, gen_fp>>

\* After the loop: sys.exit(1) when nothing was converted.
main_batch_end ==
    /\ pc = "batch"
    /\ batch.file = 0
    /\ batch.entry > Len(batch.listing)
    /\ batch' = [batch EXCEPT !.exit_code = IF batch.total_converted = 0 THEN 1 ELSE 0]
    /\ pc' = "exit"
    /\ UNCHANGED <<shape, params, errors, json_data, json_file, coil_data, fp_result,
                   fp_file, save, gen_fp>>

BatchNext ==
    \/ main_batch
    \/ main_batch_entry
    \/ main_batch_project_file
    \/ main_batch_end

BatchSpec == Init /\ [][BatchNext]_vars

----------------------------------------------------------------------------
(* Properties of the generators *)

Generators == {"circ", "ellipse", "rect", "square", "star"}

\* A generator has assembled its design record.
Assembled == shape \in Generators /\ pc # "idle"

\* A generator has just assembled its design record and is at its first prompt;
\* the record is not assigned again after that.
AtAssembly == shape \in Generators /\ pc = "ask_save"

FrontPts == json_data.tracks.f[1].pts

BackPts == json_data.tracks.b[1].pts

ViaPos == Pt(json_data.vias[1].x, json_data.vias[1].y)

PadPos(i) == Pt(json_data.pads[i].x, json_data.pads[i].y)

\* C1: in every assembled record the back path is as long as the front path and
\* its point i is the X-mirror of the front path's point N+1-i (1-based).
C1_MirrorInvariant ==
    AtAssembly =>
        /\ Len(BackPts) = Len(FrontPts)
        /\ \A i \in 1..Len(FrontPts) :
              /\ BackPts[i].x = 0 - FrontPts[Len(FrontPts) + 1 - i].x
              /\ BackPts[i].y = FrontPts[Len(FrontPts) + 1 - i].y

\* A circular coil off the origin is assembled and its path is not a palindrome.
C1_Witness ==
    /\ Assembled
    /\ shape = "circ"
    /\ params.center_x # 0
    /\ Len(FrontPts) > 2
    /\ FrontPts[1] # Last(FrontPts)
    /\ BackPts[1].x = 0 - Last(FrontPts).x

\* C2 as stated: the last point of the front path is the via position, for every
\* generator.
C2_FrontEndsAtVia ==
    Assembled => Last(FrontPts) = ViaPos

\* C2 amended: the via position is the last point of the front path for the
\* rectangular and square generators and its first point for the circular,
\* elliptical and star generators.
C2_ViaAtFrontEnd ==
    Assembled =>
        /\ Len(json_data.vias) = 1
        /\ shape \in {"rect", "square"} => Last(FrontPts) = ViaPos
        /\ shape \in {"circ", "ellipse", "star"} => FrontPts[1] = ViaPos

\* A circular coil whose front path starts at the via and ends elsewhere.
C2_Witness ==
    /\ Assembled
    /\ shape = "circ"
    /\ FrontPts[1] = ViaPos
    /\ Last(FrontPts) # ViaPos

\* Two pads, front then back, each at the end of its path away from the centre
\* point: with the centre at index v of the front path (and so at N+1-v of the
\* back path) the front pad is the front path's other end, the back pad the back
\* path's other end, and the back pad is the X-mirror of the front pad.
PadsAtOuterEnds ==
    LET N == Len(FrontPts)
    IN /\ Len(json_data.pads) = 2
       /\ json_data.pads[1].layer = "f"
       /\ json_data.pads[2].layer = "b"
       /\ N >= 2
       /\ \E v \in {1, N} :
             /\ FrontPts[v] = ViaPos
             /\ PadPos(1) = FrontPts[N + 1 - v]
             /\ PadPos(2) = BackPts[v]
       /\ PadPos(2) = Pt(0 - PadPos(1).x, PadPos(1).y)

\* C3 as stated: for every generator and all parameters with turns >= 1.
C3_PadsAtOuterEnds ==
    Assembled /\ params.turns >= 1 => PadsAtOuterEnds

\* C3 amended: for every generator and all parameters with turns >= 1 and, for
\* the star, points_per_turn >= 2 (so that the spiral has a point).
C3_PadsAtOuterEndsOfSpiral ==
    /\ Assembled
    /\ params.turns >= 1
    /\ shape = "star" => params.points_per_turn >= 2
    => PadsAtOuterEnds

\* A circular coil off the origin: centre first, front pad from index -1, back
\* pad from index 0, neither at the centre.
C3_Witness ==
    /\ Assembled
    /\ shape = "circ"
    /\ params.center_x # 0
    /\ PadPos(1) = Last(FrontPts)
    /\ PadPos(1) # ViaPos
    /\ PadsAtOuterEnds

----------------------------------------------------------------------------
(* Properties of the design-rule checks *)

Reported(check) == \E i \in 1..Len(errors) : errors[i].check = check

InnerRadius ==
    IF shape = "ellipse"
    THEN Min(params.initial_radius_x, params.initial_radius_y)
    ELSE params.initial_radius

\* C5: the circular, elliptical and star generators report the via-clearance
\* violation exactly when the innermost radius (the smaller one for the ellipse)
\* is below 0.15 + 0.2 + track_width/2.
C5_ViaClearanceRound ==
    Assembled /\ shape \in {"circ", "ellipse", "star"} =>
        (Reported("via_clearance")
            <=> 2 * InnerRadius < 2 * 150 + 2 * 200 + params.track_width)

\* An ellipse whose y radius, the smaller one, is too small while its x radius
\* alone would pass: the violation is reported.
C5_Witness ==
    /\ Assembled
    /\ shape = "ellipse"
    /\ params.initial_radius_y < params.initial_radius_x
    /\ 2 * params.initial_radius_x >= 700 + params.track_width
    /\ 2 * params.initial_radius_y < 700 + params.track_width
    /\ Reported("via_clearance")

\* The shorter innermost open dimension of a rectangular or square coil.
InnerDimension ==
    IF shape = "square"
    THEN params.initial_side - 2 * params.spacing * params.turns
    ELSE Min(params.initial_width, params.initial_height)
            - 2 * params.spacing * params.turns

\* C6: the rectangular and square generators report the via-clearance violation
\* exactly when the shorter innermost open dimension is below
\* 0.3 + 2*(0.2 + track_width/2), a dimension of zero or less included.
C6_ViaClearanceRect ==
    Assembled /\ shape \in {"rect", "square"} =>
        (Reported("via_clearance")
            <=> InnerDimension < 300 + 2 * 200 + params.track_width)

\* A rectangular coil whose innermost dimension has fallen below zero: reported.
C6_Witness ==
    /\ Assembled
    /\ shape = "rect"
    /\ InnerDimension < 0
    /\ Reported("via_clearance")

\* The record a generator assembles from its arguments alone.
RecordOf(sh, p) ==
    CASE sh = "circ" -> circ_json_data(p)
      [] sh = "ellipse" -> ellipse_json_data(p)
      [] sh = "rect" -> rect_json_data(p)
      [] sh = "square" -> square_json_data(p)
      [] sh = "star" -> star_json_data(p)

\* C7: with or without violations every generator assembles a record of one
\* front track, one back track, one via and two pads, the record its arguments
\* alone determine.
C7_ViolationsDoNotBlock ==
    AtAssembly =>
        /\ Len(json_data.tracks.f) = 1
        /\ Len(json_data.tracks.b) = 1
        /\ Len(json_data.vias) = 1
        /\ Len(json_data.pads) = 2
        /\ json_data = RecordOf(shape, params)

\* A circular coil that fails all three checks and is assembled all the same.
C7_Witness ==
    /\ Assembled
    /\ shape = "circ"
    /\ Len(errors) = 3
    /\ Len(json_data.tracks.f) = 1
    /\ Len(FrontPts) > 1
    /\ Len(json_data.pads) = 2

----------------------------------------------------------------------------
(* Properties of generate_footprint_file *)

\* The last call of generate_footprint_file returned and wrote fp_file.
Written == fp_result = "ok"

\* The fp_line lines of the file on one layer, in file order.
LinesOn(layer) ==
    SelectSeq(fp_file, LAMBDA l : l.tag = "fp_line" /\ l.layer = layer)

\* The number of lines of the file with a tag.
CountTag(tag) == Len(SelectSeq(fp_file, LAMBDA l : l.tag = tag))

SegCount(points) == IF Len(points) >= 2 THEN Len(points) - 1 ELSE 0

\* The segments due to the tracks of track_list before its track t.
RECURSIVE SegsBefore(_, _)
SegsBefore(track_list, t) ==
    IF t <= 1 THEN 0
    ELSE SegsBefore(track_list, t - 1) + SegCount(track_list[t - 1].pts)

\* The lines on a layer are the segments of the tracks of track_list and no
\* others: track by track, point i to point i+1, with the track's width.
TracksEmitted(track_list, layer) ==
    LET on == LinesOn(layer)
    IN /\ Len(on) = SegsBefore(track_list, Len(track_list) + 1)
       /\ \A t \in 1..Len(track_list) :
             \A i \in 1..SegCount(track_list[t].pts) :
                LET l == on[SegsBefore(track_list, t) + i]
                IN /\ l.start = track_list[t].pts[i]
                   /\ l.end = track_list[t].pts[i + 1]
                   /\ l.width = track_list[t].width

\* C8: a track of N points on the front, the back or an internal layer gives
\* N-1 segments on its layer, point i to point i+1 with the track's width; a
\* track or edge cut of fewer than 2 points gives none, raises nothing, and the
\* vias, pads and closing line are written all the same.
C8_TrackSegments ==
    (pc = "exit" /\ coil_data # NoRecord /\ HasRequiredKeys(coil_data)) =>
        /\ Written
        /\ TracksEmitted(coil_data.tracks.f, "F.Cu")
        /\ TracksEmitted(coil_data.tracks.b, "B.Cu")
        /\ \A k \in 1..Len(internal_layers) :
              k <= Len(coil_data.tracks.in)
                 => TracksEmitted(coil_data.tracks.in[k], internal_layers[k])
        /\ (\A c \in 1..Len(coil_data.edgeCuts) : Len(coil_data.edgeCuts[c]) < 2)
              => LinesOn("Edge.Cuts") = <<>>
        /\ CountTag("pad_np_thru_hole") = Len(coil_data.vias)
        /\ CountTag("pad_smd") = Len(coil_data.pads)
        /\ Last(fp_file).tag = "end"

\* A record whose first front track has one point and whose second has three,
\* with an internal layer, a one-point edge cut, vias and pads: it is written.
C8_Witness ==
    /\ shape = "convert"
    /\ Written
    /\ Len(coil_data.tracks.f[1].pts) = 1
    /\ Len(coil_data.tracks.f[2].pts) = 3
    /\ Len(LinesOn("F.Cu")) = 2
    /\ Len(coil_data.tracks.in) >= 1
    /\ Len(coil_data.edgeCuts) = 1
    /\ Len(coil_data.edgeCuts[1]) = 1
    /\ Len(coil_data.vias) > 0
    /\ CountTag("pad_smd") = Len(coil_data.pads)

TextOpeners == {"fp_text_reference", "fp_text_value", "fp_text_user"}

\* The text annotation a continuation line (effects, t_justify, close) belongs
\* to: the nearest text opener above it.
OpenerOf(i) ==
    CHOOSE j \in 1..(i - 1) :
        /\ fp_file[j].tag \in TextOpeners
        /\ \A k \in (j + 1)..(i - 1) : fp_file[k].tag \notin TextOpeners

InternalRank(layer) == CHOOSE k \in 1..Len(internal_layers) : internal_layers[k] = layer

\* The place of a line's group in the emission order.
RankOfTag(l) ==
    CASE l.tag \in {"footprint", "version", "generator", "generator_version",
                    "layer", "descr", "tags", "attr"} -> 0
      [] l.tag = "fp_text_reference" -> 1
      [] l.tag = "fp_text_value" -> 2
      [] l.tag = "fp_line" /\ l.layer = "F.Cu" -> 3
      [] l.tag = "fp_line" /\ l.layer = "B.Cu" -> 4
      [] l.tag = "fp_line" /\ l.layer = "Edge.Cuts" -> 14
      [] l.tag = "fp_line" -> 4 + InternalRank(l.layer)
      [] l.tag = "pad_np_thru_hole" -> 11
      [] l.tag = "pad_smd" -> 12
      [] l.tag = "fp_text_user" -> 13
      [] l.tag = "end" -> 15

GroupOf(i) ==
    IF fp_file[i].tag \in {"effects", "t_justify", "close"}
    THEN RankOfTag(fp_file[OpenerOf(i)])
    ELSE RankOfTag(fp_file[i])

\* C9: the file runs header, reference and value annotations, front segments,
\* back segments, internal segments in layer order, one through-hole pad per
\* via, SMD pads, silkscreen texts, edge cuts, and the closing line last and only
\* once: no line of a later group precedes a line of an earlier one.
C9_EmissionOrder ==
    Written =>
        /\ Len(fp_file) >= 15
        /\ [i \in 1..8 |-> fp_file[i].tag]
              = <<"footprint", "version", "generator", "generator_version",
                  "layer", "descr", "tags", "attr">>
        /\ fp_file[9].tag = "fp_text_reference"
        /\ fp_file[12].tag = "fp_text_value"
        /\ \A i \in 1..(Len(fp_file) - 1) : GroupOf(i) <= GroupOf(i + 1)
        /\ CountTag("pad_np_thru_hole") = Len(coil_data.vias)
        /\ CountTag("end") = 1
        /\ Last(fp_file).tag = "end"

\* A written record with segments on the front, the back and two internal
\* layers, with vias, pads, silkscreen texts and an edge cut.
C9_Witness ==
    /\ Written
    /\ Len(LinesOn("F.Cu")) > 0
    /\ Len(LinesOn("B.Cu")) > 0
    /\ Len(LinesOn("In1.Cu")) > 0
    /\ Len(LinesOn("In2.Cu")) > 0
    /\ CountTag("pad_np_thru_hole") = 2
    /\ CountTag("pad_smd") = 3
    /\ CountTag("fp_text_user") = 2
    /\ Len(LinesOn("Edge.Cuts")) > 0

\* The Edge.Cuts segments C10 expects of one polygon: N-1, and one more to close
\* it when it has more than 2 points and its ends differ.
ExpectedCutSegments(edge_cut) ==
    IF Len(edge_cut) >= 2
    THEN (Len(edge_cut) - 1)
         + (IF Len(edge_cut) > 2 /\ edge_cut[1] # Last(edge_cut) THEN 1 ELSE 0)
    ELSE 0

RECURSIVE ExpectedCutsSegments(_)
ExpectedCutsSegments(edge_cuts) ==
    IF edge_cuts = <<>> THEN 0
    ELSE ExpectedCutSegments(Head(edge_cuts)) + ExpectedCutsSegments(Tail(edge_cuts))

\* C10: an edge cut of N points gives its N-1 segments and a closing segment
\* exactly when it has more than 2 points and its first and last points differ.
C10_EdgeCutClosing ==
    Written =>
        Len(LinesOn("Edge.Cuts")) = ExpectedCutsSegments(coil_data.edgeCuts)

\* A step in which generate_footprint_file is called.
CallStep == fp_result = "none" /\ fp_result' # "none"

\* The record lacks the parameters block, one of the three parameters read from
\* it, or one of the track layer keys.
LacksParametersOrLayer(data) ==
    \/ "parameters" \notin DOMAIN data
    \/ ~({"trackWidth", "viaDiameter", "viaDrillDiameter"} \subseteq DOMAIN data.parameters)
    \/ "tracks" \notin DOMAIN data
    \/ ~({"f", "b", "in"} \subseteq DOMAIN data.tracks)

\* C11: a call on a record that lacks the parameters block, one of trackWidth,
\* viaDiameter, viaDrillDiameter, or one of the layer keys f, b, in raises, and
\* the output file is left as it was (absent, or the earlier file unchanged); the
\* file changes only in a call that walked the whole record.
C11_MissingKeysRaise ==
    [][/\ (CallStep /\ LacksParametersOrLayer(coil_data'))
            => (fp_result' = "KeyError" /\ fp_file' = fp_file)
       /\ (fp_file' # fp_file)
            => (CallStep /\ fp_result' = "ok" /\ HasRequiredKeys(coil_data'))]_vars

\* A call on a record without trackWidth raised, and the footprint an earlier
\* run left at the output path is still there.
C11_Witness ==
    /\ fp_result = "KeyError"
    /\ "parameters" \in DOMAIN coil_data
    /\ "trackWidth" \notin DOMAIN coil_data.parameters
    /\ fp_file # Absent
    /\ fp_file = generate_footprint_file(BaseRecord, "custom_coil").lines

----------------------------------------------------------------------------
(* Sizes and scenarios *)

\* C13 as stated: the front track of a circular coil has exactly 5000 points.
C13_FrontTrack5000 ==
    (AtAssembly /\ shape = "circ") => Len(FrontPts) = 5000

\* C13: the front track of a circular coil has exactly 5001 points, the centre
\* followed by the 5000 samples of the spiral, whatever the turns, radius and
\* spacing; the back track has as many.
C13_FrontTrack5001 ==
    (AtAssembly /\ shape = "circ") =>
        /\ Len(FrontPts) = 5001
        /\ FrontPts[1] = Pt(params.center_x, params.center_y)
        /\ FrontPts[2] = Pt(params.center_x + params.initial_radius, params.center_y)
        /\ Len(BackPts) = 5001

\* A circular coil of two turns off the origin is assembled.
C13_Witness ==
    /\ AtAssembly
    /\ shape = "circ"
    /\ params.turns = 2
    /\ params.center_x = 1000
    /\ Len(FrontPts) = 5001
    /\ FrontPts[5001] # FrontPts[1]

\* C14 as stated: the circular coil of radius 0.5, four turns, spacing 0.3 and
\* track width 0.15 gets exactly one violation, of the via clearance.
C14_OneViaViolation ==
    (AtAssembly /\ shape = "circ" /\ params = CircScenario) =>
        /\ Len(errors) = 1
        /\ errors[1].check = "via_clearance"
        /\ Len(json_data.vias) = 1
        /\ ViaPos = Pt(0, 0)

\* C14: that coil gets no violation at all: the inner radius required is
\* 0.15 + 0.2 + 0.075 = 0.425, which 0.5 meets, the gap 0.3 - 0.15 is the 0.15
\* required and the track is 0.15 wide; its record holds one via at the origin.
C14_NoViolation ==
    (AtAssembly /\ shape = "circ" /\ params = CircScenario) =>
        /\ errors = <<>>
        /\ via_hole_diameter \div 2 + via_hole_to_track + params.track_width \div 2 = 425
        /\ Len(json_data.vias) = 1
        /\ ViaPos = Pt(0, 0)

\* The circular coil of the scenario is assembled.
C14_Witness ==
    /\ AtAssembly
    /\ shape = "circ"
    /\ params = CircScenario
    /\ Len(FrontPts) = 5001
    /\ Len(json_data.vias) = 1

\* C15 as stated: the square coil of side 3, four turns and spacing 0.3 ends with
\* an innermost side of 0.6 and gets no via clearance violation.
C15_NoViaViolation ==
    (AtAssembly /\ shape = "square" /\ params = SquareScenario) =>
        /\ params.initial_side - 2 * params.spacing * params.turns = 600
        /\ ~Reported("via_clearance")

\* C15: that coil ends with an innermost side of 0.6 and gets the via clearance
\* violation, and only it: 0.6 is below the 0.3 + 2*(0.2 + 0.075) = 0.85 required.
C15_ViaViolation ==
    (AtAssembly /\ shape = "square" /\ params = SquareScenario) =>
        /\ params.initial_side - 2 * params.spacing * params.turns = 600
        /\ errors = <<Violation("via_clearance", 600, 850)>>

\* The square coil of the scenario is assembled after its four laps.
C15_Witness ==
    /\ AtAssembly
    /\ shape = "square"
    /\ params = SquareScenario
    /\ Len(errors) = 1
    /\ Len(FrontPts) > 4 * 4

----------------------------------------------------------------------------
(* The shape of the spirals *)

Straight == {"rect", "square"}

\* The spiral points are the front points without the centre, which the square
\* and rectangular generators put last and the others first.
SpiralFirst == IF shape \in Straight THEN 1 ELSE 2

SpiralLast == IF shape \in Straight THEN Len(FrontPts) - 1 ELSE Len(FrontPts)

\* How far a point is from the coil centre: the larger axis offset for the square
\* and rectangular coils, the squared distance for the others.
Extent(pt) ==
    LET dx == IF pt.x >= ViaPos.x THEN pt.x - ViaPos.x ELSE ViaPos.x - pt.x
        dy == IF pt.y >= ViaPos.y THEN pt.y - ViaPos.y ELSE ViaPos.y - pt.y
    IN IF shape \in Straight THEN Max(dx, dy) ELSE dx * dx + dy * dy

\* No spiral point of the round coils is farther from the centre than this.
OuterRadius ==
    CASE shape = "circ" -> params.initial_radius + params.spacing * params.turns
      [] shape = "ellipse" -> Max(params.initial_radius_x, params.initial_radius_y)
                              + params.spacing * params.turns
      [] shape = "star" -> params.initial_radius + params.spacing * (params.turns + 1)

\* The drop in Extent that one step may show without the point being closer to
\* the centre by more than 0.003 mm, the resolution of the sampled coordinates:
\* a drop of the squared distance above 2 * 3 * OuterRadius is a drop of the
\* distance above 3. The straight coils have exact coordinates.
Resolution == IF shape \in Straight THEN 0 ELSE 2 * 3 * OuterRadius

\* C16 as stated: in every spiral no point is closer to the centre than the
\* point before it, and so none is closer than the point 50 places before it.
C16_ExtentNonDecreasing ==
    AtAssembly =>
        /\ \A i \in SpiralFirst..(SpiralLast - 1) :
              Extent(FrontPts[i]) - Extent(FrontPts[i + 1]) <= Resolution
        /\ \A i \in SpiralFirst..(SpiralLast - 50) :
              Extent(FrontPts[i]) - Extent(FrontPts[i + 50]) <= Resolution

\* C16: in the circular spiral no point is closer to the centre than the point
\* before it (to the resolution of the coordinates), none is closer than the
\* point 50 samples before it, and the spiral runs from the initial radius out
\* to initial radius + spacing * turns.
C16_CircularExtentNonDecreasing ==
    (AtAssembly /\ shape = "circ") =>
        /\ \A i \in 2..(Len(FrontPts) - 1) :
              Extent(FrontPts[i]) - Extent(FrontPts[i + 1]) <= Resolution
        /\ \A i \in 2..(Len(FrontPts) - 50) :
              Extent(FrontPts[i]) <= Extent(FrontPts[i + 50])
        /\ Extent(FrontPts[2]) = params.initial_radius * params.initial_radius
        /\ Extent(FrontPts[Len(FrontPts)]) >= (OuterRadius - 3) * (OuterRadius - 3)

\* A circular coil of two turns whose last point is farther out than its first.
C16_Witness ==
    /\ AtAssembly
    /\ shape = "circ"
    /\ params.turns = 2
    /\ Extent(FrontPts[2]) < Extent(FrontPts[2500])
    /\ Extent(FrontPts[2500]) < Extent(FrontPts[5001])

\* The X-mirror of a point.
Mirrored(pt) == Pt(0 - pt.x, pt.y)

\* The end of the front path that is not the via point.
FrontOuterEnd == IF shape \in Straight THEN FrontPts[1] ELSE Last(FrontPts)

----------------------------------------------------------------------------
(* More properties of generate_footprint_file *)

\* C18: a call of generate_footprint_file leaves the record it is given as it
\* was, whether it returns or raises: after a generator's call the record is the
\* one the generator assembled, field for field; after the converter's call it
\* is the record that was loaded.
C18_RecordNotMutated ==
    [][CallStep =>
          /\ shape \in Generators =>
                /\ json_data' = json_data
                /\ coil_data' = json_data
          /\ shape' = "convert" => coil_data' \in InputRecords]_vars

\* The converter returned from a call on a record whose second pad carries no
\* layer field, and the pad still carries none.
C18_Witness ==
    /\ shape = "convert"
    /\ fp_result = "ok"
    /\ Len(coil_data.pads) = 3
    /\ "layer" \notin DOMAIN coil_data.pads[2]
    /\ coil_data \in WellFormedRecords

----------------------------------------------------------------------------
(* The violation list *)

\* The via clearance check of the running generator fails.
ViaClearanceFails ==
    IF shape \in Straight
    THEN InnerDimension < 300 + 2 * 200 + params.track_width
    ELSE 2 * InnerRadius < 2 * 150 + 2 * 200 + params.track_width

\* The entry of a check in the list: one if it fails, none if it passes.
EntryIf(fails, check) == IF fails THEN <<check>> ELSE <<>>

\* C19: the violation list holds one entry for each check that fails and none
\* for one that passes, in the order via clearance, same-net spacing, track
\* width, so at most three; each check is reported on its own condition alone,
\* the track width exactly when track_width < 0.15.
C19_IndependentChecks ==
    Assembled =>
        /\ [i \in 1..Len(errors) |-> errors[i].check]
              = EntryIf(ViaClearanceFails, "via_clearance")
                \o EntryIf(params.spacing - params.track_width < 150, "same_net_spacing")
                \o EntryIf(params.track_width < 150, "track_width")
        /\ Len(errors) <= 3
        /\ Reported("track_width") <=> params.track_width < 150

\* A coil that passes the via clearance and fails the other two checks: both
\* are listed, spacing first.
C19_Witness ==
    /\ Assembled
    /\ ~ViaClearanceFails
    /\ Len(errors) = 2
    /\ errors[1].check = "same_net_spacing"
    /\ errors[2].check = "track_width"

\* The SMD pad lines of the file, in file order.
SmdPads == SelectSeq(fp_file, LAMBDA l : l.tag = "pad_smd")

\* C20: the file holds one SMD pad line per pad of the record, numbered 1, 2, ...
\* in record order, at the pad's position and of its size, on the back triplet
\* exactly when the pad's layer is "b" and on the front triplet otherwise, a
\* pad without a layer field included.
C20_SmdPads ==
    Written =>
        LET smd == SmdPads
        IN /\ Len(smd) = Len(coil_data.pads)
           /\ \A i \in 1..Len(coil_data.pads) :
                 LET pad == coil_data.pads[i]
                     line == smd[i]
                 IN /\ line.num = i
                    /\ line.x = pad.x /\ line.y = pad.y
                    /\ line.width = pad.width /\ line.height = pad.height
                    /\ line.layers = "B.Cu B.Paste B.Mask"
                          <=> ("layer" \in DOMAIN pad /\ pad.layer = "b")
                    /\ line.layers \in {"B.Cu B.Paste B.Mask", "F.Cu F.Paste F.Mask"}

\* A written record of three pads, a back one, one without layer and a front
\* one: pad 1 is on the back triplet, pads 2 and 3 on the front triplet.
C20_Witness ==
    /\ Written
    /\ Len(coil_data.pads) = 3
    /\ coil_data.pads[1].layer = "b"
    /\ "layer" \notin DOMAIN coil_data.pads[2]
    /\ coil_data.pads[3].layer = "f"
    /\ SmdPads[1].layers = "B.Cu B.Paste B.Mask"
    /\ SmdPads[2].layers = "F.Cu F.Paste F.Mask"
    /\ SmdPads[3].layers = "F.Cu F.Paste F.Mask"
    /\ SmdPads[3].num = 3

\* The places in the file of the lines with a tag, in file order.
PositionsOf(tag) ==
    SelectSeq([i \in 1..Len(fp_file) |-> i], LAMBDA i : fp_file[i].tag = tag)

HasRotation(text) == "angle" \in DOMAIN text /\ text.angle # 0

\* C21: the file holds one user text annotation per silkscreen entry of the
\* record, in record order, on F.SilkS when the entry's layer is "f" and on
\* B.SilkS otherwise; the annotation carries the rotation attribute, with the
\* entry's angle, exactly when the entry has an angle that is not 0, and no
\* rotation attribute stands anywhere else in the file.
C21_SilkText ==
    Written =>
        LET at == PositionsOf("fp_text_user")
            silk == coil_data.silk
        IN /\ Len(at) = Len(silk)
           /\ \A i \in 1..Len(silk) :
                 LET text == silk[i]
                     opener == fp_file[at[i]]
                     third == fp_file[at[i] + 2]
                 IN /\ opener.text = text.text
                    /\ opener.x = text.x /\ opener.y = text.y
                    /\ opener.layer = (IF text.layer = "f" THEN "F.SilkS" ELSE "B.SilkS")
                    /\ fp_file[at[i] + 1] = [tag |-> "effects", size |-> text.size]
                    /\ third.tag = "t_justify" <=> HasRotation(text)
                    /\ third.tag = "t_justify" => third.angle = text.angle
                    /\ third.tag # "t_justify" => third.tag = "close"
           /\ CountTag("t_justify") = Cardinality({i \in 1..Len(silk) : HasRotation(silk[i])})

\* A written record with a back text turned by 90 and a front text without an
\* angle: only the first annotation has the rotation attribute.
C21_Witness ==
    /\ Written
    /\ Len(coil_data.silk) = 2
    /\ coil_data.silk[1].layer = "b"
    /\ coil_data.silk[1].angle = 90
    /\ "angle" \notin DOMAIN coil_data.silk[2]
    /\ fp_file[PositionsOf("fp_text_user")[1]].layer = "B.SilkS"
    /\ fp_file[PositionsOf("fp_text_user")[2]].layer = "F.SilkS"
    /\ fp_file[PositionsOf("fp_text_user")[1] + 2] = [tag |-> "t_justify", angle |-> 90]
    /\ CountTag("t_justify") = 1

\* The through-hole pad lines of the file, in file order.
ViaPads == SelectSeq(fp_file, LAMBDA l : l.tag = "pad_np_thru_hole")

\* C22: the file holds one non-plated through-hole pad per via of the record, in
\* record order and at the via's position, whose size and drill are the
\* parameters viaDiameter and viaDrillDiameter of the record; a diameter or
\* drill field of the via itself changes nothing.
C22_ViaPads ==
    Written =>
        LET np == ViaPads
        IN /\ Len(np) = Len(coil_data.vias)
           /\ \A i \in 1..Len(coil_data.vias) :
                 /\ np[i].x = coil_data.vias[i].x
                 /\ np[i].y = coil_data.vias[i].y
                 /\ np[i].size = coil_data.parameters.viaDiameter
                 /\ np[i].drill = coil_data.parameters.viaDrillDiameter
                 /\ np[i].layers = "*.Cu *.Mask"

\* A written record of two vias, the first with its own diameter and drill that
\* differ from the record's parameters: both pads have the record-wide size.
C22_Witness ==
    /\ Written
    /\ Len(coil_data.vias) = 2
    /\ "diameter" \in DOMAIN coil_data.vias[1]
    /\ coil_data.vias[1].diameter # coil_data.parameters.viaDiameter
    /\ coil_data.vias[1].drill # coil_data.parameters.viaDrillDiameter
    /\ "diameter" \notin DOMAIN coil_data.vias[2]
    /\ ViaPads[1].size = coil_data.parameters.viaDiameter
    /\ ViaPads[1].drill = coil_data.parameters.viaDrillDiameter
    /\ ViaPads[2].size = ViaPads[1].size

\* The layers a segment line of the file can be on.
SegmentLayers ==
    {"F.Cu", "B.Cu", "Edge.Cuts"} \cup {internal_layers[k] : k \in 1..Len(internal_layers)}

\* C23: the internal track list at 0-based index i < 6 is written on layer
\* In(i+1).Cu, which holds its segments and no others; a list at index 6 or
\* higher gives no segment on any layer and raises nothing, so a record with
\* more than 6 internal lists is written, without the lists past the sixth.
C23_InternalLayers ==
    (pc = "exit" /\ coil_data # NoRecord /\ HasRequiredKeys(coil_data)) =>
        /\ Written
        /\ \A i \in 0..(Len(coil_data.tracks.in) - 1) :
              i < 6 => /\ internal_layers[i + 1] = "In" \o ToString(i + 1) \o ".Cu"
                       /\ TracksEmitted(coil_data.tracks.in[i + 1], internal_layers[i + 1])
        /\ \A k \in 1..Len(internal_layers) :
              k > Len(coil_data.tracks.in) => LinesOn(internal_layers[k]) = <<>>
        /\ \A j \in 1..Len(fp_file) :
              fp_file[j].tag = "fp_line" => fp_file[j].layer \in SegmentLayers

\* A written record of more than 6 internal lists, the seventh with a track of
\* two points or more: the sixth list is on In6.Cu and the file has the segments
\* of six lists only.
C23_Witness ==
    /\ Written
    /\ Len(coil_data.tracks.in) > 6
    /\ Len(coil_data.tracks.in[7][1].pts) >= 2
    /\ Len(LinesOn("In6.Cu")) = Len(coil_data.tracks.in[6][1].pts) - 1
    /\ LinesOn("In6.Cu")[1].width = coil_data.tracks.in[6][1].width
    /\ \A j \in 1..Len(fp_file) :
          fp_file[j].tag = "fp_line" => fp_file[j].width # coil_data.tracks.in[7][1].width

----------------------------------------------------------------------------
(* Properties of the rectangular and square spirals *)

\* The dimensions the square and rectangular coils start from.
InitialWidth == IF shape = "square" THEN params.initial_side ELSE params.initial_width

InitialHeight == IF shape = "square" THEN params.initial_side ELSE params.initial_height

\* The step counts of lap k (from 0): round(dimension / spacing) of the initial
\* dimension less 2*spacing per completed lap.
WSteps(k) == RoundDiv(InitialWidth - 2 * k * params.spacing, params.spacing)

HSteps(k) == RoundDiv(InitialHeight - 2 * k * params.spacing, params.spacing)

\* The points range() yields for a step count: none for a count below 1.
Ranged(n) == IF n > 0 THEN n ELSE 0

\* The points of lap k: right, up, left, down one step short, one inward.
LapLen(k) == Ranged(WSteps(k)) + Ranged(HSteps(k)) + Ranged(WSteps(k))
                + Ranged(HSteps(k) - 1) + 1

\* The place in the path of the first point of lap k.
RECURSIVE LapStart(_)
LapStart(k) == IF k = 0 THEN 1 ELSE LapStart(k - 1) + LapLen(k - 1)

\* b is one step of length s from a along exactly one axis.
OneStep(a, b, s) ==
    \/ a.y = b.y /\ (b.x - a.x = s \/ a.x - b.x = s)
    \/ a.x = b.x /\ (b.y - a.y = s \/ a.y - b.y = s)

\* C24: in the rectangular and square coils every two consecutive points of the
\* spiral (the points before the appended via point), the pair that crosses from
\* one lap to the next included, are one step of length spacing apart along
\* exactly one axis; and lap k starts at (start_x + k*spacing,
\* start_y + k*spacing) when every lap before it has a vertical step, hence
\* whenever every lap has one.
C24_LapsConnect ==
    (AtAssembly /\ shape \in Straight) =>
        LET pts == FrontPts
        IN /\ \A i \in 1..(Len(pts) - 2) : OneStep(pts[i], pts[i + 1], params.spacing)
           /\ \A k \in 0..(params.turns - 1) :
                 (\A j \in 0..(k - 1) : HSteps(j) >= 1)
                    => pts[LapStart(k)] = Pt(params.start_x + k * params.spacing,
                                             params.start_y + k * params.spacing)

\* A rectangular coil of two laps that does not start on the origin: the inward
\* point of lap 0 is one step left of the first point of lap 1, which is one
\* step right of and above the start.
C24_Witness ==
    /\ AtAssembly
    /\ shape = "rect"
    /\ params.turns = 2
    /\ params.start_x = 200
    /\ HSteps(0) >= 2 /\ HSteps(1) >= 1
    /\ LapStart(1) = 2 * WSteps(0) + 2 * HSteps(0) + 1
    /\ FrontPts[LapStart(1) - 1] = Pt(params.start_x, params.start_y + params.spacing)
    /\ FrontPts[LapStart(1)] = Pt(params.start_x + params.spacing,
                                  params.start_y + params.spacing)

RECURSIVE SumLapLen(_)
SumLapLen(n) == IF n = 0 THEN 0 ELSE SumLapLen(n - 1) + LapLen(n - 1)

\* The sum over the first n laps of 2*w_k + 2*h_k.
RECURSIVE SumStepCounts(_)
SumStepCounts(n) ==
    IF n = 0 THEN 0 ELSE SumStepCounts(n - 1) + 2 * WSteps(n - 1) + 2 * HSteps(n - 1)

\* C25 as claimed: the path the rectangular generator produces has the sum over
\* its laps of 2*w_k + 2*h_k points.
C25_PathLength ==
    (AtAssembly /\ shape = "rect") => Len(FrontPts) = SumStepCounts(params.turns)

\* C25: the path the rectangular generator produces has one point more than the
\* sum over its laps of the points of the lap, for the via point appended to
\* the spiral; a lap has w_k right + h_k up + w_k left + (h_k - 1) down +
\* 1 inward points, a count below 1 giving none, which is 2*w_k + 2*h_k when the
\* lap has a vertical step, so that the path of a coil whose laps all have
\* one has the sum of 2*w_k + 2*h_k, plus 1, points.
C25_PathLengthWithVia ==
    (AtAssembly /\ shape = "rect") =>
        /\ Len(FrontPts) = SumLapLen(params.turns) + 1
        /\ (\A k \in 0..(params.turns - 1) : HSteps(k) >= 1 /\ WSteps(k) >= 0)
              => Len(FrontPts) = SumStepCounts(params.turns) + 1

\* A rectangular coil of two laps with vertical steps in both: its path has the
\* sum of the step counts and the via point.
C25_Witness ==
    /\ AtAssembly
    /\ shape = "rect"
    /\ params.turns = 2
    /\ HSteps(0) = 5 /\ HSteps(1) = 3
    /\ WSteps(0) = 10 /\ WSteps(1) = 8
    /\ Len(FrontPts) = 30 + 22 + 1
    /\ Last(FrontPts) = ViaPos

----------------------------------------------------------------------------
(* Properties of the star spiral *)

\* The squared distance of a point from the via.
DistSq(pt) ==
    (pt.x - ViaPos.x) * (pt.x - ViaPos.x) + (pt.y - ViaPos.y) * (pt.y - ViaPos.y)

\* The spiral point of 0-based index i: the front path starts with the centre.
StarPoint(i) == FrontPts[i + 2]

\* The tip radius at point i of a spiral of n points a revolution:
\* initial_radius + spacing * (i / n + 1).
TipRadius(i, n) == params.initial_radius + (params.spacing * (i + n)) \div n

\* pt is at distance r from the via, to 0.003 mm for the rounding of its
\* coordinates.
AtRadius(pt, r) ==
    /\ DistSq(pt) <= (r + 3) * (r + 3)
    /\ (r > 3 => DistSq(pt) >= (r - 3) * (r - 3))

\* C26 as claimed: the star spiral has turns * points_per_turn points for every
\* positive points_per_turn; its even-indexed points are at the tip radius outer_r and
\* its odd-indexed points at outer_r * inner_ratio, and the tips move strictly
\* outward with the point index, across lap boundaries too.
C26_StarPoints ==
    (AtAssembly /\ shape = "star") =>
        LET n == params.points_per_turn
            total == params.turns * n
        IN /\ Len(FrontPts) - 1 = total
           /\ \A i \in 0..(total - 1) :
                 AtRadius(StarPoint(i),
                          IF i % 2 = 0 THEN TipRadius(i, n)
                          ELSE (TipRadius(i, n) * params.inner_ratio) \div 100)
           /\ \A i \in 0..(total - 3) :
                 i % 2 = 0 => DistSq(StarPoint(i + 2)) > DistSq(StarPoint(i))

\* C26: the star spiral has turns * 2 * num_star_points points, where
\* num_star_points is points_per_turn // 2: turns * points_per_turn for an even
\* points_per_turn, turns * (points_per_turn - 1) for an odd one, none for 1.
\* Its even-indexed points are at the tip radius outer_r and its odd-indexed
\* points at outer_r * inner_ratio, and the tips move strictly outward with the
\* point index, across lap boundaries too.
C26_StarPointsPerStar ==
    (AtAssembly /\ shape = "star") =>
        LET n == 2 * (params.points_per_turn \div 2)
            total == params.turns * n
        IN /\ Len(FrontPts) - 1 = total
           /\ params.points_per_turn % 2 = 0 => total = params.turns * params.points_per_turn
           /\ params.points_per_turn % 2 = 1
                 => total = params.turns * (params.points_per_turn - 1)
           /\ \A i \in 0..(total - 1) :
                 AtRadius(StarPoint(i),
                          IF i % 2 = 0 THEN TipRadius(i, n)
                          ELSE (TipRadius(i, n) * params.inner_ratio) \div 100)
           /\ \A i \in 0..(total - 3) :
                 i % 2 = 0 => DistSq(StarPoint(i + 2)) > DistSq(StarPoint(i))

\* A star coil of two turns and 5 points a turn, valleys at 0.55 of the tips: 8
\* spiral points, the first tip of the second lap farther out than the last tip
\* of the first, the first valley nearer than the first tip.
C26_Witness ==
    /\ AtAssembly
    /\ shape = "star"
    /\ params.points_per_turn = 5
    /\ params.turns = 2
    /\ params.inner_ratio = 55
    /\ Len(FrontPts) = 9
    /\ DistSq(StarPoint(4)) > DistSq(StarPoint(2))
    /\ DistSq(StarPoint(1)) < DistSq(StarPoint(0))

----------------------------------------------------------------------------
(* Properties of the via *)

\* A path has one of its two ends on the via.
EndsOnVia(pts) == pts[1] = ViaPos \/ Last(pts) = ViaPos

\* C27: in every assembled record, whatever the centre of the coil, one with an
\* x other than 0 included, the front track and the back track each have an end
\* exactly at the position of the via of the record.
C27_ViaJoinsLayers ==
    AtAssembly => EndsOnVia(FrontPts) /\ EndsOnVia(BackPts)

\* The offset of a point from the via along its farther axis.
AxisOffset(pt) ==
    LET dx == IF pt.x >= ViaPos.x THEN pt.x - ViaPos.x ELSE ViaPos.x - pt.x
        dy == IF pt.y >= ViaPos.y THEN pt.y - ViaPos.y ELSE ViaPos.y - pt.y
    IN Max(dx, dy)

\* No spiral point of the front path is nearer to the via than r: by its
\* distance, to 0.003 mm for the rounding of the coordinates, in the round
\* coils; by leaving the box of half-side r around the via in the straight ones.
NoPointWithin(r) ==
    \A i \in SpiralFirst..SpiralLast :
        IF shape \in Straight
        THEN AxisOffset(FrontPts[i]) >= r
        ELSE r > 3 => DistSq(FrontPts[i]) >= (r - 3) * (r - 3)

\* The distance from the via centre that the via-clearance check requires free:
\* via_hole/2 + hole_to_track + track_width/2.
RequiredClearance == via_hole_diameter \div 2 + via_hole_to_track + params.track_width \div 2

\* C28: what the via-clearance check measures is a lower bound on the geometry:
\* no spiral point of the front path is nearer to the via than the measured
\* inner radius (circular, elliptical, star with any inner ratio) or than half
\* the measured innermost open dimension (rectangular, square); so a coil that
\* passes the check has no spiral point inside the required clearance.
C28_MeasuredExtentIsLowerBound ==
    AtAssembly =>
        /\ shape \in Straight => NoPointWithin(InnerDimension \div 2)
        /\ shape \notin Straight => NoPointWithin(InnerRadius)
        /\ ~Reported("via_clearance") => NoPointWithin(RequiredClearance)

----------------------------------------------------------------------------
(* Properties of the generators' save sequence *)

\* The violations the generator of the running shape reports for its arguments.
ReportOf(sh, p) ==
    CASE sh = "circ" -> circ_errors(p)
      [] sh = "ellipse" -> ellipse_errors(p)
      [] sh = "rect" -> rect_errors(p)
      [] sh = "square" -> square_errors(p)
      [] sh = "star" -> star_errors(p)

\* One step of a generator keeps the order of its save sequence.
SaveSequenceStep ==
    shape' \in Generators =>
        \* the save prompt is reached with the design rules reported and nothing
        \* asked or written yet
        /\ pc' = "ask_save" =>
              /\ errors' = ReportOf(shape', params')
              /\ save' = Unasked /\ gen_fp' = Unasked
              /\ json_file' = NoRecord /\ fp_result' = "none"
        \* the JSON file is written by the answer y to the save prompt only
        /\ json_file' # json_file => pc = "ask_save" /\ save' = "y"
        /\ (pc = "ask_save" /\ save' = "y") =>
              pc' = "ask_fp" /\ json_file' = json_data /\ fp_result' = "none"
        \* the footprint prompt is asked with the JSON file written
        /\ pc' = "ask_fp" => save' = "y" /\ json_file' = json_data /\ gen_fp' = Unasked
        /\ gen_fp' # gen_fp => pc = "ask_fp" /\ json_file = json_data
        \* the footprint file is written by the answer y to that prompt only
        /\ fp_result' # fp_result =>
              /\ pc = "ask_fp" /\ gen_fp' = "y"
              /\ save = "y" /\ json_file = json_data
              /\ fp_result' = "ok" /\ coil_data' = json_data
        /\ (pc = "ask_fp" /\ gen_fp' = "y") => fp_result' = "ok"
        /\ (pc = "ask_fp" /\ gen_fp' # "y") => pc' = "exit" /\ UNCHANGED <<fp_result, fp_file>>
        \* any other answer to the save prompt ends the run, no file written
        /\ (pc = "ask_save" /\ save' # "y") =>
              /\ pc' = "exit"
              /\ json_file' = NoRecord
              /\ gen_fp' = Unasked
              /\ UNCHANGED <<fp_result, fp_file>>
        \* nothing follows the end of the run
        /\ pc # "exit"

\* C30: in every generator the design-rule report comes before the save prompt;
\* the JSON file is written only by the answer y to the save prompt; the
\* footprint prompt is asked, and the footprint file written, only after the
\* JSON file was written, the file only by the answer y to the second prompt;
\* any other answer to the save prompt ends the run with neither file written.
C30_SaveSequence == [][SaveSequenceStep]_vars

\* A generator run that reported violations, was answered y twice and has
\* written the JSON file and then the footprint file.
C30_Witness ==
    /\ shape \in Generators
    /\ pc = "exit"
    /\ errors # <<>>
    /\ save = "y"
    /\ gen_fp = "y"
    /\ json_file = json_data
    /\ Written

----------------------------------------------------------------------------
(* Properties of the batch run *)

\* The .json files under the input directory: <<e, 0>> for the top-level file
\* that is entry e, <<e, j>> for the j-th .json file of the subfolder at e.
JsonIds ==
    {<<e, 0>> : e \in {x \in 1..Len(batch.listing) :
                          /\ batch.listing[x].kind = "file"
                          /\ batch.listing[x].file.is_json}}
    \cup UNION {{<<e, j>> : j \in 1..Len(JsonFiles(batch.listing[e]))} :
                  e \in {x \in 1..Len(batch.listing) : batch.listing[x].kind = "dir"}}

FileOf(id) ==
    IF id[2] = 0 THEN batch.listing[id[1]].file
    ELSE JsonFiles(batch.listing[id[1]])[id[2]]

\* A file that loads and whose record has every key the conversion reads.
Convertible(id) == FileOf(id).holds.parses /\ HasRequiredKeys(FileOf(id).holds.data)

\* The files the loops have passed.
Passed(id) ==
    \/ id[1] < batch.entry
    \/ id[1] = batch.entry /\ id[2] >= 1 /\ id[2] < batch.file

\* C29: in a batch run a file that fails to load or to convert never stops the
\* run: every .json file the loops have passed, at the top level and in the
\* project subfolders, has been attempted, and at the end all of them; the
\* count of converted files is the number of files whose conversion succeeded;
\* and the run ends with status 1 exactly when that count is 0, or when the
\* input is not a directory.
C29_BatchRun ==
    pc # "idle" =>
        /\ ~batch.is_dir => pc = "exit" /\ batch.exit_code = 1
        /\ batch.is_dir =>
              /\ batch.attempted = {id \in JsonIds : Passed(id)}
              /\ batch.converted = {id \in batch.attempted : Convertible(id)}
              /\ batch.total_converted = Cardinality(batch.converted)
              /\ pc = "batch" => batch.exit_code = 0
              /\ pc = "exit" =>
                    /\ batch.attempted = JsonIds
                    /\ batch.exit_code \in {0, 1}
                    /\ batch.exit_code = 1 <=> batch.total_converted = 0

\* A finished run over a top-level file that does not parse, a subfolder whose
\* first file lacks a key and whose second converts, and a top-level file that
\* converts: four attempts, two conversions, status 0.
C29_Witness ==
    /\ pc = "exit"
    /\ batch.is_dir
    /\ Len(batch.listing) = 3
    /\ batch.attempted = {<<1, 0>>, <<2, 1>>, <<2, 2>>, <<3, 0>>}
    /\ ~FileOf(<<1, 0>>).holds.parses
    /\ FileOf(<<2, 1>>).holds.parses /\ ~Convertible(<<2, 1>>)
    /\ batch.converted = {<<2, 2>>, <<3, 0>>}
    /\ batch.total_converted = 2
    /\ batch.exit_code = 0

====
